---- MODULE Spec2Model ----
(***************************************************************************)
(* kvs: a log-structured key-value store (src/kvs/src/lib.rs).             *)
(*                                                                         *)
(* The model follows KvStore<K, V> field by field.  Keys and values are    *)
(* small naturals standing for the strings of their decimal text (the      *)
(* command line tool instantiates K = V = String).  A file is a map from   *)
(* byte offsets to the records encoded there, plus the records of which    *)
(* only the first bytes are there, its size in bytes and its modification  *)
(* time; a record's encoded length depends on its contents, db_key         *)
(* included, as it does in the ASN.1 DER encoding.                         *)
(*                                                                         *)
(* Every function of lib.rs that returns Result is an operator that        *)
(* returns [res, s]: the result and the store (with its directory) after   *)
(* the call.  The field s.os says how the operating system behaves during  *)
(* the call: which I/O call fails, if any, and whether the process dies    *)
(* there.                                                                  *)
(***************************************************************************)
EXTENDS Integers, Sequences, FiniteSets, TLC

\* ------------------------------------------------------------------ bounds
\* number of set, remove and new calls explored after the initial state
MaxSteps == 2

\* ------------------------------------------------------- program constants
\* init_self: min_records_before_compaction: 100
min_records_before_compaction == 100
\* init_self: stale_fraction_for_compaction: 0.25, kept as an exact ratio
stale_fraction_for_compaction == [num |-> 1, den |-> 4]

\* ------------------------------------------------------------ value shapes
\* Option<T>
None == <<>>
Some(v) == <<v>>
\* Result<T>: Ok(x) and Err(Error::new(kind))
Ok(x) == [ok |-> TRUE, val |-> x, err |-> "none"]
Err(kind) == [ok |-> FALSE, val |-> None, err |-> kind]
\* Ok(()) of set and remove
Unit == <<>>

Max(a, b) == IF a >= b THEN a ELSE b
Min(a, b) == IF a <= b THEN a ELSE b
\* TRUE, once v has been computed: the first half of a loop's turns is
\* computed before the second half starts
Evaluated(v) == v = v

\* the keys of the model: one more than the compaction minimum
AllKeys == 1 .. (min_records_before_compaction + 1)
\* the keys the explored calls use: one that every preloaded log holds and
\* the one that brings a store to the compaction minimum
ActKeys == {1, min_records_before_compaction}
\* the values: the preload writes 1, then 2
Values == {1, 2}

\* --------------------------------------------------------------- the codec
\* length of the decimal text of n (a String key or value)
StrLen(n) == IF n < 10 THEN 1 ELSE IF n < 100 THEN 2 ELSE 3
\* content octets of a DER INTEGER holding the u64 n
IntLen(n) == IF n < 128 THEN 1 ELSE IF n < 32768 THEN 2 ELSE IF n < 8388608 THEN 3 ELSE 4
\* octets serde_asn1_der::to_writer emits for Record { db_key, key, value }:
\* SEQUENCE header, INTEGER, UTF8String, then UTF8String or NULL
RecLen(rec) ==
    2 + (2 + IntLen(rec.db_key)) + (2 + StrLen(rec.key))
      + (IF rec.value = None THEN 2 ELSE 2 + StrLen(rec.value[1]))

\* --------------------------------------------------------------- the files
\* the map f on the part S of its domain
Restrict(f, S) == IF S = DOMAIN f THEN f ELSE [x \in S |-> f[x]]

NoRecs == [o \in {} |-> 0]
\* a file: recs are the records whose encoding is there in full, by offset;
\* part are the records of which only the first `have` bytes are there
EmptyFile(t) == [recs |-> NoRecs, part |-> NoRecs, size |-> 0, mtime |-> t, is_file |-> TRUE]

\* bytes [from, to) of the encoding of rec, as they wait in a BufWriter
Chunk(rec, from, to) == [rec |-> rec, from |-> from, to |-> to]

\* write(2) of the first n bytes of chunk at byte offset pos of a file.  The
\* bytes start a record there (chunk.from = 0) or carry on the record whose
\* first chunk.from bytes end at pos; anything else the written range
\* overlaps is destroyed; the file grows when needed.
PutBytes(file, pos, chunk, n, t) ==
    LET start == pos - chunk.from
        head  == chunk.from = 0
        continues ==
            /\ chunk.from > 0
            /\ start \in DOMAIN file.part
            /\ file.part[start] = [rec |-> chunk.rec, have |-> chunk.from]
        whole == chunk.from + n = RecLen(chunk.rec)
        keepR == {o \in DOMAIN file.recs :
                     o + RecLen(file.recs[o]) <= pos \/ o >= pos + n}
        keepP == {o \in DOMAIN file.part :
                     /\ o + file.part[o].have <= pos \/ o >= pos + n
                     /\ ~(continues /\ o = start)}
        recs1 == Restrict(file.recs, keepR)
        part1 == Restrict(file.part, keepP)
        at    == IF head THEN pos ELSE start
    IN IF n = 0 THEN file
       ELSE [file EXCEPT
               !.recs = IF (head \/ continues) /\ whole
                        THEN (at :> chunk.rec) @@ recs1 ELSE recs1,
               !.part = IF (head \/ continues) /\ ~whole
                        THEN (at :> [rec |-> chunk.rec, have |-> chunk.from + n]) @@ part1
                        ELSE part1,
               !.size = Max(file.size, pos + n),
               !.mtime = t]

\* File::set_len(len): the bytes from len on are gone; a record that len cuts
\* keeps its first bytes
Truncate(file, len, t) ==
    LET keepR == {o \in DOMAIN file.recs : o + RecLen(file.recs[o]) <= len}
        cutR  == {o \in DOMAIN file.recs : o < len /\ o + RecLen(file.recs[o]) > len}
        keepP == {o \in DOMAIN file.part : o < len}
    IN [file EXCEPT
          !.recs = Restrict(file.recs, keepR),
          !.part = [o \in keepP \cup cutR |->
                       IF o \in cutR THEN [rec |-> file.recs[o], have |-> len - o]
                       ELSE [file.part[o] EXCEPT
                               !.have = IF o + @ <= len THEN @ ELSE len - o]],
          !.size = len,
          !.mtime = t]

\* serde_asn1_der::from_reader at byte offset pos: "rec", a record that starts
\* there; "eof", the end of the file; "torn", a record whose encoding the end
\* of the file cuts short; "bad", other octets that are no record
ReadAt(file, pos) ==
    IF pos \in DOMAIN file.recs
    THEN [kind |-> "rec", rec |-> file.recs[pos], next |-> pos + RecLen(file.recs[pos])]
    ELSE IF pos >= file.size
    THEN [kind |-> "eof", rec |-> None, next |-> pos]
    ELSE IF pos \in DOMAIN file.part /\ pos + file.part[pos].have = file.size
    THEN [kind |-> "torn", rec |-> None, next |-> file.size]
    ELSE [kind |-> "bad", rec |-> None, next |-> pos]

\* the offsets of the records that successive reads decode, starting at offset
\* from: a record is reached when the records from there on up to it leave no
\* gap (records never overlap, see PutBytes)
ScanOffsets(file, from) ==
    LET starts == {o \in DOMAIN file.recs : o >= from}
        ends   == {o + RecLen(file.recs[o]) : o \in starts} \cup {from}
        gaps   == {o \in starts : o \notin ends}
    IN IF from \notin DOMAIN file.recs THEN {}
       ELSE {o \in starts : \A g \in gaps : o < g}

\* paths <stem><uuid>.<ext> of the store directory; make_db_log_path writes
\* the stem "kvsdb-" and the 32 characters of a simple uuid
Path(uuid, ext) == [stem |-> "kvsdb-", hex |-> 32, uuid |-> uuid, ext |-> ext]
NoPath == Path(0, "none")
NoDir == [p \in {} |-> 0]
NoIndex == [k \in {} |-> 0]
\* a reader is the path of its file and its position; a writer has, besides,
\* the chunks that wait in its buffer
NoHandle == [path |-> NoPath, pos |-> 0]
NoWriter == [path |-> NoPath, pos |-> 0, buf |-> <<>>]

\* HashMap::insert and HashMap::remove
MapInsert(m, k, v) == (k :> v) @@ m
MapRemove(m, k) == Restrict(m, DOMAIN m \ {k})

\* ------------------------------------------------- the operating system
\* s.os: the I/O call that fails (call, after skip calls of its kind went
\* through), the number of bytes a failing write still hands over (part),
\* whether the process dies at that call instead of seeing the error (crash),
\* whether the writes of the call all carry the time stamp of the last write
\* before them (coarse: modification times have the resolution of the file
\* system's clock), and the error from_reader reports for octets that are no
\* record and for a failed read (decode).
Calm ==
    [call |-> "none", skip |-> 0, part |-> 0, crash |-> FALSE, coarse |-> FALSE,
     decode |-> "Asn1DerError"]

\* the I/O call `call` is the one that fails; after the process died, every
\* call is
Fails(s, call) ==
    s.os.call = "dead" \/ (s.os.call = call /\ s.os.skip = 0)
\* the store after an I/O call failed
Failed(s) ==
    [s EXCEPT !.os.call = IF s.os.call = "dead" \/ s.os.crash THEN "dead" ELSE "none"]
\* the store after an I/O call of the kind `call` went through
Passed(s, call) ==
    IF s.os.call = call THEN [s EXCEPT !.os.skip = @ - 1] ELSE s
\* the time stamp of a write, and the clock after it
Now(s) == IF s.os.coarse THEN s.clock ELSE s.clock + 1
\* io::Error, turned into Error by From<io::Error>
IoError == Err("IoError")

\* ------------------------------------------------------------ the KvStore
\* A store value s holds the fields of KvStore (index, stale_count, file_path,
\* reader, writer and the two thresholds), the directory it works on (dir, with
\* the clock that stamps modification times and the next uuid Uuid::new_v4
\* hands out), the number of compactions completed so far and os.

\* open_db_reader_and_writer without file.seek(io::SeekFrom::End(0)): the
\* writer starts at the beginning of the file
open_db_reader_and_writer_at_start(s, db_path, truncate) ==
    LET fresh == db_path \notin DOMAIN s.dir \/ truncate
        t     == Now(s)
        reader_of(s2) ==
            IF Fails(s2, "open") THEN [res |-> IoError, s |-> Failed(s2)]
            ELSE [res |-> Ok([reader |-> [path |-> db_path, pos |-> 0],
                              writer |-> [path |-> db_path, pos |-> 0, buf |-> <<>>]]),
                  s   |-> Passed(s2, "open")]
    IN IF Fails(s, "open") THEN [res |-> IoError, s |-> Failed(s)]
       ELSE reader_of([Passed(s, "open") EXCEPT
                         !.dir = IF fresh THEN MapInsert(@, db_path, EmptyFile(t)) ELSE @,
                         !.clock = IF fresh THEN t ELSE @])

\* open_db_reader_and_writer(db_path, truncate): the file is opened for
\* writing (created, or emptied when truncate), the writer is put at its end,
\* the file is opened for reading
open_db_reader_and_writer(s, db_path, truncate) ==
    LET fresh == db_path \notin DOMAIN s.dir \/ truncate
        t     == Now(s)
        \* the file is opened for reading
        reader_of(s2, pos) ==
            IF Fails(s2, "open") THEN [res |-> IoError, s |-> Failed(s2)]
            ELSE [res |-> Ok([reader |-> [path |-> db_path, pos |-> 0],
                              writer |-> [path |-> db_path, pos |-> pos, buf |-> <<>>]]),
                  s   |-> Passed(s2, "open")]
        \* writer.seek(SeekFrom::End(0)) unless the file was emptied
        writer_of(s1) ==
            IF truncate THEN reader_of(s1, 0)
            ELSE IF Fails(s1, "seek") THEN [res |-> IoError, s |-> Failed(s1)]
            ELSE reader_of(Passed(s1, "seek"), s1.dir[db_path].size)
    IN IF Fails(s, "open") THEN [res |-> IoError, s |-> Failed(s)]
       ELSE writer_of([Passed(s, "open") EXCEPT
                         !.dir = IF fresh THEN MapInsert(@, db_path, EmptyFile(t)) ELSE @,
                         !.clock = IF fresh THEN t ELSE @])

\* init_self(db_path, do_truncate_on_open)
init_self(s, db_path, do_truncate_on_open) ==
    LET fields(h) ==
            IF ~h.res.ok THEN [res |-> h.res, s |-> h.s]
            ELSE [res |-> Ok(Unit),
                  s   |-> [h.s EXCEPT
                             !.index = NoIndex, !.stale_count = 0, !.file_path = db_path,
                             !.reader = h.res.val.reader, !.writer = h.res.val.writer,
                             !.stale_fraction_for_compaction = stale_fraction_for_compaction,
                             !.min_records_before_compaction = min_records_before_compaction]]
    IN fields(open_db_reader_and_writer(s, db_path, do_truncate_on_open))

\* read_next_record: the record at the reader's position.  The decoder's own
\* error reads as "no more records": that is what it reports at the end of
\* the file and inside a record the end of the file cuts short; what it
\* reports for other octets and for a failed read is s.os.decode.
read_next_record(s) ==
    IF Fails(s, "from_reader")
    THEN [res |-> IF s.os.call # "dead" /\ s.os.decode = "Asn1DerError"
                  THEN Ok(None) ELSE IoError,
          s   |-> Failed(s)]
    ELSE LET decoded(r) ==
                 [res |-> IF r.kind = "rec" THEN Ok(Some(r.rec))
                          ELSE IF r.kind \in {"eof", "torn"} THEN Ok(None)
                          ELSE IF s.os.decode = "Asn1DerError" THEN Ok(None)
                          ELSE IoError,
                  s   |-> [Passed(s, "from_reader") EXCEPT !.reader.pos = r.next]]
         IN decoded(ReadAt(s.dir[s.reader.path], s.reader.pos))

\* read_next_record_value that hands on the Ok(None) of read_next_record
read_next_record_value_passes_none(s) ==
    LET value_of(r) ==
            [res |-> IF ~r.res.ok THEN IoError
                     ELSE IF r.res.val = None THEN Ok(None)
                     ELSE Ok(r.res.val[1].value),
             s   |-> r.s]
    IN value_of(read_next_record(s))

\* read_next_record_value
read_next_record_value(s) ==
    LET value_of(r) ==
            [res |-> IF r.res.ok /\ r.res.val # None
                     THEN Ok(r.res.val[1].value) ELSE IoError,
             s   |-> r.s]
    IN value_of(read_next_record(s))

\* load_record with the tombstone arm leaving the index alone
load_record_keeps_removed_key(s, rec) ==
    IF rec.value # None
    THEN [s EXCEPT !.index = MapInsert(@, rec.key, rec.db_key),
                   !.stale_count = IF rec.key \in DOMAIN s.index THEN @ + 1 ELSE @]
    ELSE [s EXCEPT !.stale_count = @ + 1]

\* load_record with the write arm never counting the displaced record
load_record_misses_overwrites(s, rec) ==
    IF rec.value # None
    THEN [s EXCEPT !.index = MapInsert(@, rec.key, rec.db_key)]
    ELSE [s EXCEPT !.index = MapRemove(@, rec.key),
                   !.stale_count = @ + 1]

\* the body of load_index's loop: a write inserts, a tombstone removes
load_record(s, rec) ==
    IF rec.value # None
    THEN [s EXCEPT !.index = MapInsert(@, rec.key, rec.db_key),
                   !.stale_count = IF rec.key \in DOMAIN s.index THEN @ + 1 ELSE @]
    ELSE [s EXCEPT !.index = MapRemove(@, rec.key),
                   !.stale_count = @ + 1]

\* one turn of load_index's while loop; c holds the store, the result so far
\* and whether the loop has ended
load_index_turn(c) ==
    IF c.done THEN c
    ELSE LET turn(r) ==
                 IF ~r.res.ok THEN [s |-> r.s, res |-> r.res, done |-> TRUE]
                 ELSE IF r.res.val = None THEN [s |-> r.s, res |-> Ok(Unit), done |-> TRUE]
                 ELSE [c EXCEPT !.s = load_record(r.s, r.res.val[1])]
         IN turn(read_next_record(c.s))

\* n turns of the loop (the turns are evaluated in two halves)
RECURSIVE load_index_turns(_, _)
load_index_turns(c, n) ==
    IF n = 0 THEN c
    ELSE IF n = 1 THEN load_index_turn(c)
    ELSE LET rest(half) ==
                 IF Evaluated(half) THEN load_index_turns(half, n - n \div 2) ELSE half
         IN rest(load_index_turns(c, n \div 2))

\* load_index: one turn for every record the reader can decode and one for
\* the read that ends the loop
load_index(s) ==
    LET n == Cardinality(ScanOffsets(s.dir[s.reader.path], s.reader.pos)) + 1
        loaded(c) == [res |-> c.res, s |-> c.s]
    IN loaded(load_index_turns([s |-> s, res |-> Ok(Unit), done |-> FALSE], n))

\* build_output_record that takes db_key from the position of the reader
build_output_record_at_reader(s, key, value) ==
    IF Fails(s, "stream_position") THEN [res |-> IoError, s |-> Failed(s)]
    ELSE [res |-> Ok([db_key |-> s.reader.pos, key |-> key, value |-> value]),
          s   |-> Passed(s, "stream_position")]

\* build_output_record: db_key is the position of the writer's file (not
\* counting what waits in the writer's buffer)
build_output_record(s, key, value) ==
    IF Fails(s, "stream_position") THEN [res |-> IoError, s |-> Failed(s)]
    ELSE [res |-> Ok([db_key |-> s.writer.pos, key |-> key, value |-> value]),
          s   |-> Passed(s, "stream_position")]

\* flush_buf on a file opened in append mode: every chunk goes to the end of
\* the file
RECURSIVE flush_buf_appends(_, _, _, _)
flush_buf_appends(file, pos, buf, t) ==
    IF buf = <<>> THEN [file |-> file, pos |-> pos]
    ELSE LET c == Head(buf)
             n == c.to - c.from
         IN flush_buf_appends(PutBytes(file, file.size, c, n, t), file.size + n,
                              Tail(buf), t)

\* BufWriter::flush_buf: the chunks of the buffer go to the file, one after
\* the other, from position pos on
RECURSIVE flush_buf(_, _, _, _)
flush_buf(file, pos, buf, t) ==
    IF buf = <<>> THEN [file |-> file, pos |-> pos]
    ELSE LET c == Head(buf)
             n == c.to - c.from
         IN flush_buf(PutBytes(file, pos, c, n, t), pos + n, Tail(buf), t)

\* write_record_to_writer: the record is encoded into the writer's buffer and
\* the writer is flushed.  When the encoding fails, the writer seeks back to
\* rec.db_key (which flushes what the buffer holds) and the file is cut there.
\* A flush that fails has handed over the first s.os.part bytes of the buffer;
\* the rest stays in the buffer.
write_record_to_writer(s, writer, rec) ==
    LET t == Now(s)
        \* writer.get_mut().set_len(rec.db_key)
        set_len(s2, w2) ==
            IF Fails(s2, "set_len")
            THEN [res |-> IoError, s |-> Failed(s2), writer |-> w2]
            ELSE [res |-> IoError,
                  s   |-> [s2 EXCEPT !.dir[writer.path] = Truncate(@, rec.db_key, t)],
                  writer |-> w2]
        \* writer.seek(SeekFrom::Start(rec.db_key)), which flushes the buffer
        seek(s1, w1, f) ==
            IF Fails(s1, "seek")
            THEN [res |-> IoError, s |-> Failed(s1), writer |-> w1]
            ELSE set_len([s1 EXCEPT !.dir[writer.path] = f.file, !.clock = t],
                         [w1 EXCEPT !.buf = <<>>, !.pos = rec.db_key])
        \* the Err arm of to_writer
        restore(s1, w1) ==
            seek(s1, w1, flush_buf(s1.dir[writer.path], writer.pos, w1.buf, t))
        \* writer.flush(), of which a failure hands over n bytes of chunk c
        flush(s1, w1, c, n) ==
            IF Fails(s1, "flush")
            THEN [res |-> IoError,
                  s   |-> [Failed(s1) EXCEPT
                             !.dir[writer.path] = PutBytes(@, writer.pos, c, n, t),
                             !.clock = IF n > 0 THEN t ELSE @],
                  writer |-> [w1 EXCEPT !.pos = @ + n,
                                        !.buf = <<[c EXCEPT !.from = @ + n]>> \o Tail(@)]]
            ELSE LET flushed(f) ==
                         [res |-> Ok(Unit),
                          s   |-> [Passed(s1, "flush") EXCEPT
                                     !.dir[writer.path] = f.file, !.clock = t],
                          writer |-> [w1 EXCEPT !.pos = f.pos, !.buf = <<>>]]
                 IN flushed(flush_buf(s1.dir[writer.path], writer.pos, w1.buf, t))
        \* the Ok arm of to_writer
        encoded(s1, w1) ==
            flush(s1, w1, Head(w1.buf),
                  IF s1.os.call = "dead" THEN 0
                  ELSE Min(s1.os.part, Head(w1.buf).to - Head(w1.buf).from - 1))
    IN IF Fails(s, "to_writer")
       THEN restore(Failed(s),
                    [writer EXCEPT
                       !.buf = Append(@, Chunk(rec, 0, Min(s.os.part, RecLen(rec) - 1)))])
       ELSE encoded(Passed(s, "to_writer"),
                    [writer EXCEPT !.buf = Append(@, Chunk(rec, 0, RecLen(rec)))])

\* write_record_to_db
write_record_to_db(s, rec) ==
    LET written(w) == [res |-> w.res, s |-> [w.s EXCEPT !.writer = w.writer]]
    IN written(write_record_to_writer(s, s.writer, rec))

\* make_db_log_path / make_next_db_log_path: a fresh uuid
make_db_log_path(s) == Path(s.next_uuid, "log")
make_next_db_log_path(s) == Path(s.next_uuid, "compact")

\* replace_reader_writer_index_file: the four fields are swapped, the old
\* four returned
replace_reader_writer_index_file(s, reader, writer, index, file_path) ==
    [s    |-> [s EXCEPT !.reader = reader, !.writer = writer,
                        !.index = index, !.file_path = file_path],
     orig |-> [reader |-> s.reader, writer |-> s.writer,
               index |-> s.index, file_path |-> s.file_path]]

\* is_active_record that takes every record for a live one
is_active_record_takes_all(s, rec) == TRUE

\* is_active_record that takes every record whose key is in the index,
\* whichever offset the index gives
is_active_record_any_offset(s, rec) == rec.key \in DOMAIN s.index

\* the test of the copy loop: the record is the live one of its key
is_active_record(s, rec) ==
    rec.key \in DOMAIN s.index /\ s.index[rec.key] = rec.db_key

\* compacted_record without the assignment rec.db_key = db_key
compacted_record_keeps_db_key(rec, db_key) == rec

\* the record as rewritten into the compact file
compacted_record(rec, db_key) == [rec EXCEPT !.db_key = db_key]

\* copy_turn with compacted_index given the record's offset in the old log
copy_turn_indexes_old_offset(c) ==
    IF c.done THEN c
    ELSE LET db_key == c.writer.pos
             copied(rec, w) ==
                 [c EXCEPT !.s = w.s, !.writer = w.writer,
                           !.index = MapInsert(@, rec.key, rec.db_key)]
             turn(r, rec) ==
                 IF ~r.res.ok THEN [c EXCEPT !.s = r.s, !.res = r.res, !.done = TRUE]
                 ELSE IF r.res.val = None THEN [c EXCEPT !.s = r.s, !.done = TRUE]
                 ELSE IF rec.key \in DOMAIN r.s.index /\ r.s.index[rec.key] = rec.db_key
                 THEN copied(rec, write_record_to_writer(
                                      r.s, c.writer, [rec EXCEPT !.db_key = db_key]))
                 ELSE [c EXCEPT !.s = r.s]
             read(r) == turn(r, r.res.val[1])
         IN read(read_next_record(c.s))

\* one turn of the while loop of
\* copy_active_records_to_compaction_file_and_update_indexes; c holds the store,
\* compacted_writer, compacted_index, the result so far and whether the loop
\* has ended
copy_turn(c) ==
    IF c.done THEN c
    ELSE LET db_key == c.writer.pos
             \* after write_record_to_writer(&mut compacted_writer, &rec)
             copied(rec, w) ==
                 IF ~w.res.ok
                 THEN [c EXCEPT !.s = w.s, !.writer = w.writer,
                                !.res = w.res, !.done = TRUE]
                 ELSE [c EXCEPT !.s = w.s, !.writer = w.writer,
                                !.index = MapInsert(@, rec.key, db_key)]
             \* the body of the loop for the record read
             turn(r, rec) ==
                 IF ~r.res.ok THEN [c EXCEPT !.s = r.s, !.res = r.res, !.done = TRUE]
                 ELSE IF r.res.val = None THEN [c EXCEPT !.s = r.s, !.done = TRUE]
                 ELSE IF ~is_active_record(r.s, rec) THEN [c EXCEPT !.s = r.s]
                 ELSE IF Fails(r.s, "stream_position")
                 THEN [c EXCEPT !.s = Failed(r.s), !.res = IoError, !.done = TRUE]
                 ELSE copied(rec, write_record_to_writer(
                                      Passed(r.s, "stream_position"), c.writer,
                                      compacted_record(rec, db_key)))
             read(r) == turn(r, r.res.val[1])
         IN read(read_next_record(c.s))

\* n turns of the loop (the turns are evaluated in two halves)
RECURSIVE copy_turns(_, _)
copy_turns(c, n) ==
    IF n = 0 THEN c
    ELSE IF n = 1 THEN copy_turn(c)
    ELSE LET rest(half) ==
                 IF Evaluated(half) THEN copy_turns(half, n - n \div 2) ELSE half
         IN rest(copy_turns(c, n \div 2))

\* copy_active_records_to_compaction_file_and_update_indexes: Ok carries the
\* four fields the store held before
copy_active_records_to_compaction_file_and_update_indexes(s, compact_file_path) ==
    LET \* the four fields are swapped
        replaced(x) == [res |-> Ok(x.orig), s |-> x.s]
        \* after the while loop
        copied(h, c) ==
            IF ~c.res.ok THEN [res |-> c.res, s |-> c.s]
            ELSE replaced(replace_reader_writer_index_file(
                              c.s, h.res.val.reader, c.writer, c.index, compact_file_path))
        \* self.reader.seek(SeekFrom::Start(0)) went through
        rewound(h, s1) ==
            copied(h, copy_turns([s |-> s1, writer |-> h.res.val.writer, index |-> NoIndex,
                                  res |-> Ok(Unit), done |-> FALSE],
                                 Cardinality(ScanOffsets(s1.dir[s1.reader.path], 0)) + 1))
        opened(h) ==
            IF ~h.res.ok THEN [res |-> h.res, s |-> h.s]
            ELSE IF Fails(h.s, "seek") THEN [res |-> IoError, s |-> Failed(h.s)]
            ELSE rewound(h, [Passed(h.s, "seek") EXCEPT !.reader.pos = 0])
    IN opened(open_db_reader_and_writer(s, compact_file_path, TRUE))

\* finalize_compacted_filename: rename to the .log extension; the open handles
\* follow the file
finalize_compacted_filename(s) ==
    LET final_path == [s.file_path EXCEPT !.ext = "log"]
        renamed(h) == IF h.path = s.file_path THEN [h EXCEPT !.path = final_path] ELSE h
    IN IF Fails(s, "rename") THEN [res |-> IoError, s |-> Failed(s)]
       ELSE [res |-> Ok(Unit),
             s   |-> [Passed(s, "rename") EXCEPT
                        !.dir = MapInsert(MapRemove(@, s.file_path), final_path, @[s.file_path]),
                        !.reader = renamed(@), !.writer = renamed(@),
                        !.file_path = final_path]]

\* remove_file that returns Ok(()) and leaves the file where it is
remove_file_leaves_file(s, path) ==
    IF Fails(s, "remove_file") THEN [res |-> IoError, s |-> Failed(s)]
    ELSE [res |-> Ok(Unit), s |-> Passed(s, "remove_file")]

\* remove_file: fs::remove_file fails on a path that is not there
remove_file(s, path) ==
    IF Fails(s, "remove_file") THEN [res |-> IoError, s |-> Failed(s)]
    ELSE IF path \notin DOMAIN s.dir THEN [res |-> IoError, s |-> Passed(s, "remove_file")]
    ELSE [res |-> Ok(Unit),
          s   |-> [Passed(s, "remove_file") EXCEPT !.dir = MapRemove(@, path)]]

\* compact without self.stale_count = 0
compact_keeps_stale_count(s) ==
    LET compact_path == make_next_db_log_path(s)
        removed(d) ==
            IF ~d.res.ok THEN d
            ELSE [res |-> Ok(Unit), s |-> [d.s EXCEPT !.compactions = @ + 1]]
        finalized(c, f) ==
            IF ~f.res.ok THEN f ELSE removed(remove_file(f.s, c.res.val.file_path))
        undone(c, r) == [res |-> IF r.res.ok THEN c.res ELSE r.res, s |-> r.s]
        copied(c) ==
            IF ~c.res.ok THEN undone(c, remove_file(c.s, compact_path))
            ELSE finalized(c, finalize_compacted_filename(c.s))
    IN copied(copy_active_records_to_compaction_file_and_update_indexes(
                  [s EXCEPT !.next_uuid = @ + 1], compact_path))

\* compact
compact(s) ==
    LET compact_path == make_next_db_log_path(s)
        \* Self::remove_file(orig_file_path)?; self.stale_count = 0
        removed(d) ==
            IF ~d.res.ok THEN d
            ELSE [res |-> Ok(Unit),
                  s   |-> [d.s EXCEPT !.stale_count = 0, !.compactions = @ + 1]]
        \* self.finalize_compacted_filename()?
        finalized(c, f) ==
            IF ~f.res.ok THEN f ELSE removed(remove_file(f.s, c.res.val.file_path))
        \* the Err arm: Self::remove_file(compact_path)?; Err(e)
        undone(c, r) == [res |-> IF r.res.ok THEN c.res ELSE r.res, s |-> r.s]
        copied(c) ==
            IF ~c.res.ok THEN undone(c, remove_file(c.s, compact_path))
            ELSE finalized(c, finalize_compacted_filename(c.s))
    IN copied(copy_active_records_to_compaction_file_and_update_indexes(
                  [s EXCEPT !.next_uuid = @ + 1], compact_path))

\* the condition with the records of the log counted for index.len()
stale_threshold_counts_records(s) ==
    LET len == Cardinality(DOMAIN s.index)
    IN /\ len + s.stale_count >= s.min_records_before_compaction
       /\ s.stale_count * s.stale_fraction_for_compaction.den
              >= s.stale_fraction_for_compaction.num * len

\* the condition with > for >= in the comparison of the fraction
stale_threshold_strict(s) ==
    LET len == Cardinality(DOMAIN s.index)
    IN /\ len >= s.min_records_before_compaction
       /\ s.stale_count * s.stale_fraction_for_compaction.den
              > s.stale_fraction_for_compaction.num * len

\* the condition of compact_if_stale_threshold_reached; the f64 quotient
\* stale_count / index.len() is compared exactly (with index.len() = 0 the
\* first conjunct is false unless the minimum is 0, and then the quotient is
\* NaN or infinite: NaN compares false, infinity true)
stale_threshold_reached(s) ==
    LET len == Cardinality(DOMAIN s.index)
    IN /\ len >= s.min_records_before_compaction
       /\ IF len = 0 THEN s.stale_count > 0
          ELSE s.stale_count * s.stale_fraction_for_compaction.den
                   >= s.stale_fraction_for_compaction.num * len

\* compact_if_stale_threshold_reached
compact_if_stale_threshold_reached(s) ==
    IF stale_threshold_reached(s) THEN compact(s) ELSE [res |-> Ok(Unit), s |-> s]

\* set_record that leaves the entry of a key already in the index as it is
set_record_keeps_old_entry(s, key, value) ==
    LET written(b, w) ==
            [res |-> Ok(Unit),
             s   |-> IF key \in DOMAIN w.s.index
                     THEN [w.s EXCEPT !.stale_count = @ + 1]
                     ELSE [w.s EXCEPT !.index = MapInsert(@, key, b.res.val.db_key)]]
        built(b) == written(b, write_record_to_db(b.s, b.res.val))
    IN built(build_output_record(s, key, Some(value)))

\* set_record that counts every set as making a record stale
set_record_counts_every_set(s, key, value) ==
    LET written(b, w) ==
            [res |-> Ok(Unit),
             s   |-> [w.s EXCEPT !.index = MapInsert(@, key, b.res.val.db_key),
                                 !.stale_count = @ + 1]]
        built(b) == written(b, write_record_to_db(b.s, b.res.val))
    IN built(build_output_record(s, key, Some(value)))

\* set_record that drops the key from the index when the insert displaced an
\* offset
set_record_drops_displaced_key(s, key, value) ==
    LET written(b, w) ==
            [res |-> Ok(Unit),
             s   |-> IF key \in DOMAIN w.s.index
                     THEN [w.s EXCEPT !.index = MapRemove(@, key), !.stale_count = @ + 1]
                     ELSE [w.s EXCEPT !.index = MapInsert(@, key, b.res.val.db_key)]]
        built(b) == written(b, write_record_to_db(b.s, b.res.val))
    IN built(build_output_record(s, key, Some(value)))

\* set_record that updates the index whether or not the write went through
set_record_indexes_failed_write(s, key, value) ==
    LET written(b, w) ==
            [res |-> w.res,
             s   |-> [w.s EXCEPT
                        !.index = MapInsert(@, key, b.res.val.db_key),
                        !.stale_count = IF key \in DOMAIN w.s.index THEN @ + 1 ELSE @]]
        built(b) ==
            IF ~b.res.ok THEN b ELSE written(b, write_record_to_db(b.s, b.res.val))
    IN built(build_output_record(s, key, Some(value)))

\* set, up to the compaction check: append the record, update the index
set_record(s, key, value) ==
    LET \* self.index.insert(key, rec.db_key) after write_record_to_db
        written(b, w) ==
            IF ~w.res.ok THEN w
            ELSE [res |-> Ok(Unit),
                  s   |-> [w.s EXCEPT
                             !.index = MapInsert(@, key, b.res.val.db_key),
                             !.stale_count = IF key \in DOMAIN w.s.index THEN @ + 1 ELSE @]]
        built(b) ==
            IF ~b.res.ok THEN b ELSE written(b, write_record_to_db(b.s, b.res.val))
    IN built(build_output_record(s, key, Some(value)))

\* set that takes the key out of the index again when the compaction fails
set_forgets_key_on_failed_compaction(s, key, value) ==
    LET checked(c) ==
            IF c.res.ok THEN c ELSE [res |-> c.res, s |-> [c.s EXCEPT !.index = MapRemove(@, key)]]
        then_compact(m) ==
            IF ~m.res.ok THEN m ELSE checked(compact_if_stale_threshold_reached(m.s))
    IN then_compact(set_record(s, key, value))

\* KvStore::set
set(s, key, value) ==
    LET then_compact(m) ==
            IF ~m.res.ok THEN m ELSE compact_if_stale_threshold_reached(m.s)
    IN then_compact(set_record(s, key, value))

\* get that reports an absent key as the error remove reports
get_absent_is_error(s, key) ==
    IF key \notin DOMAIN s.index
    THEN [res |-> Err("KeyNotPresent"), s |-> s]
    ELSE read_next_record_value([s EXCEPT !.reader.pos = s.index[key]])

\* get that reports a failed seek of the reader as an absent key
get_seek_error_is_key_not_present(s, key) ==
    IF key \notin DOMAIN s.index THEN [res |-> Ok(None), s |-> s]
    ELSE IF Fails(s, "seek") THEN [res |-> Err("KeyNotPresent"), s |-> Failed(s)]
    ELSE read_next_record_value([Passed(s, "seek") EXCEPT !.reader.pos = s.index[key]])

\* get that seeks the writer along with the reader
get_seeks_writer(s, key) ==
    IF key \notin DOMAIN s.index THEN [res |-> Ok(None), s |-> s]
    ELSE IF Fails(s, "seek") THEN [res |-> IoError, s |-> Failed(s)]
    ELSE read_next_record_value([Passed(s, "seek") EXCEPT !.reader.pos = s.index[key],
                                                          !.writer.pos = s.index[key]])

\* KvStore::get
get(s, key) ==
    IF key \notin DOMAIN s.index THEN [res |-> Ok(None), s |-> s]
    ELSE IF Fails(s, "seek") THEN [res |-> IoError, s |-> Failed(s)]
    ELSE read_next_record_value([Passed(s, "seek") EXCEPT !.reader.pos = s.index[key]])

\* remove_record without self.index.remove(&key)
remove_record_keeps_entry(s, key) ==
    LET written(w) == [res |-> Ok(Unit), s |-> [w.s EXCEPT !.stale_count = @ + 1]]
        built(b) == written(write_record_to_db(b.s, b.res.val))
    IN built(build_output_record(s, key, None))

\* remove_record without self.stale_count += 1
remove_record_leaves_stale_count(s, key) ==
    LET written(w) == [res |-> Ok(Unit), s |-> [w.s EXCEPT !.index = MapRemove(@, key)]]
        built(b) == written(write_record_to_db(b.s, b.res.val))
    IN built(build_output_record(s, key, None))

\* remove_record with self.index.clear() for self.index.remove(&key)
remove_record_clears_index(s, key) ==
    LET written(w) ==
            IF ~w.res.ok THEN w
            ELSE [res |-> Ok(Unit),
                  s   |-> [w.s EXCEPT !.index = NoIndex, !.stale_count = @ + 1]]
        built(b) ==
            IF ~b.res.ok THEN b ELSE written(write_record_to_db(b.s, b.res.val))
    IN built(build_output_record(s, key, None))

\* remove of a present key, up to the compaction check
remove_record(s, key) ==
    LET \* self.index.remove(&key) after write_record_to_db
        written(w) ==
            IF ~w.res.ok THEN w
            ELSE [res |-> Ok(Unit),
                  s   |-> [w.s EXCEPT !.index = MapRemove(@, key), !.stale_count = @ + 1]]
        built(b) ==
            IF ~b.res.ok THEN b ELSE written(write_record_to_db(b.s, b.res.val))
    IN built(build_output_record(s, key, None))

\* remove that appends the tombstone before it looks the key up
remove_appends_before_lookup(s, key) ==
    LET written(w) ==
            IF key \in DOMAIN s.index
            THEN [res |-> Ok(Unit),
                  s   |-> [w.s EXCEPT !.index = MapRemove(@, key), !.stale_count = @ + 1]]
            ELSE [res |-> Err("KeyNotPresent"), s |-> w.s]
        built(b) == written(write_record_to_db(b.s, b.res.val))
    IN built(build_output_record(s, key, None))

\* KvStore::remove
remove(s, key) ==
    LET then_compact(m) ==
            IF ~m.res.ok THEN m ELSE compact_if_stale_threshold_reached(m.s)
    IN IF key \notin DOMAIN s.index THEN [res |-> Err("KeyNotPresent"), s |-> s]
       ELSE then_compact(remove_record(s, key))

\* the test of latest_log_for_dir: a regular file whose stem starts with
\* "kvsdb-" and is 38 characters long and whose extension is "log"
is_db_log(dir, p) ==
    dir[p].is_file /\ p.stem = "kvsdb-" /\ Len(p.stem) + p.hex = 38 /\ p.ext = "log"

\* latest_log_for_dir that keeps the first log read_dir yields, whatever the
\* modification times
latest_log_for_dir_keeps_first(dir) == {p \in DOMAIN dir : is_db_log(dir, p)}

\* latest_log_for_dir: the log files no other log file is newer than (read_dir
\* yields the entries in no particular order, and an entry replaces the one
\* kept only when it is strictly newer: any of the newest can be the result)
latest_log_for_dir(dir) ==
    LET logs == {p \in DOMAIN dir : is_db_log(dir, p)}
    IN {p \in logs : \A q \in logs : dir[q].mtime <= dir[p].mtime}

\* use_existing_or_create_new_db_log_path: the paths it can return
use_existing_or_create_new_db_log_path(s) ==
    IF latest_log_for_dir(s.dir) = {} THEN {make_db_log_path(s)}
    ELSE latest_log_for_dir(s.dir)

\* the uuid counter after use_existing_or_create_new_db_log_path returned path
after_db_log_path(s, db_path) ==
    IF db_path \in DOMAIN s.dir THEN s ELSE [s EXCEPT !.next_uuid = @ + 1]

\* drop(KvStore): the writer's buffer is flushed (errors are ignored), the
\* handles are closed, the fields are gone; the directory stays.  A process
\* that died flushes nothing.
drop(s) ==
    LET flushes == /\ s.os.call # "dead"
                   /\ s.writer.buf # <<>>
                   /\ s.writer.path \in DOMAIN s.dir
        t == Now(s)
        closed(s1) ==
            [s1 EXCEPT !.index = NoIndex, !.stale_count = 0, !.file_path = NoPath,
                       !.reader = NoHandle, !.writer = NoWriter]
    IN closed(IF flushes
              THEN [s EXCEPT
                      !.dir[s.writer.path] =
                          flush_buf(@, s.writer.pos, s.writer.buf, t).file,
                      !.clock = t]
              ELSE s)

\* open that runs the compaction check once the index is loaded
open_compacts_after_load(s, db_path) ==
    LET checked(c) == IF ~c.res.ok THEN [res |-> c.res, s |-> drop(c.s)] ELSE c
        loaded(l) ==
            IF ~l.res.ok THEN [res |-> l.res, s |-> drop(l.s)]
            ELSE checked(compact_if_stale_threshold_reached(l.s))
        made(i) == IF ~i.res.ok THEN i ELSE loaded(load_index(i.s))
    IN IF Fails(s, "read_dir") THEN [res |-> IoError, s |-> Failed(s)]
       ELSE made(init_self(after_db_log_path(Passed(s, "read_dir"), db_path),
                           db_path, FALSE))

\* KvStore::open, the log path chosen; no store is there when it fails
open(s, db_path) ==
    LET \* kvs.load_index()?: the store built so far is dropped on Err
        loaded(l) == IF ~l.res.ok THEN [res |-> l.res, s |-> drop(l.s)] ELSE l
        made(i) == IF ~i.res.ok THEN i ELSE loaded(load_index(i.s))
    IN IF Fails(s, "read_dir") THEN [res |-> IoError, s |-> Failed(s)]
       ELSE made(init_self(after_db_log_path(Passed(s, "read_dir"), db_path),
                           db_path, FALSE))

\* new that opens the log as open does, without emptying it
new_keeps_log(s, db_path) ==
    IF Fails(s, "read_dir") THEN [res |-> IoError, s |-> Failed(s)]
    ELSE init_self(after_db_log_path(Passed(s, "read_dir"), db_path), db_path, FALSE)

\* KvStore::new, the log path chosen
new(s, db_path) ==
    IF Fails(s, "read_dir") THEN [res |-> IoError, s |-> Failed(s)]
    ELSE init_self(after_db_log_path(Passed(s, "read_dir"), db_path), db_path, TRUE)

\* what get returns for every key
View(s) == [k \in AllKeys |-> get(s, k).res]

\* ------------------------------------------------------------- the state
VARIABLES
    index,          \* KvStore.index: key -> offset of its live record
    stale_count,    \* KvStore.stale_count
    file_path,      \* KvStore.file_path
    reader,         \* KvStore.reader: path and position
    writer,         \* KvStore.writer: path and position
    dir,            \* the store directory: path -> file
    clock,          \* the time the file system last stamped a modification with
    next_uuid,      \* the next uuid Uuid::new_v4 returns
    compactions,    \* the number of compactions completed
    thresholds,     \* KvStore.stale_fraction_for_compaction and
                    \* KvStore.min_records_before_compaction
    phase,          \* "open": a KvStore exists; "closed": it was dropped
    kv,             \* history: key -> Some(value of the last successful set), or
                    \* None when never set or removed since
    last,           \* history: the last call, its arguments and its result
    dropped,        \* history: index, stale_count and View of the store last dropped
    fault,          \* history: the I/O call that failed in the last call, and
                    \* the store as it was before
    peer,           \* a second KvStore of the same directory: its index,
                    \* stale_count, file_path, reader and writer
    steps           \* the number of set, remove and new calls so far

vars == <<index, stale_count, file_path, reader, writer, dir, clock, next_uuid,
          compactions, thresholds, phase, kv, last, dropped, fault, peer,
          steps>>

\* the store value of the current state
Store ==
    [index |-> index, stale_count |-> stale_count, file_path |-> file_path,
     reader |-> reader, writer |-> writer, dir |-> dir, clock |-> clock,
     next_uuid |-> next_uuid, compactions |-> compactions,
     stale_fraction_for_compaction |-> thresholds.stale_fraction_for_compaction,
     min_records_before_compaction |-> thresholds.min_records_before_compaction,
     os |-> Calm]

\* the next state holds the store value s
Becomes(s) ==
    /\ index' = s.index
    /\ stale_count' = s.stale_count
    /\ file_path' = s.file_path
    /\ reader' = s.reader
    /\ writer' = s.writer
    /\ dir' = s.dir
    /\ clock' = s.clock
    /\ next_uuid' = s.next_uuid
    /\ compactions' = s.compactions
    /\ thresholds' =
           [stale_fraction_for_compaction |-> s.stale_fraction_for_compaction,
            min_records_before_compaction |-> s.min_records_before_compaction]

\* the state holds the store value s
InitStore(s) ==
    /\ index = s.index
    /\ stale_count = s.stale_count
    /\ file_path = s.file_path
    /\ reader = s.reader
    /\ writer = s.writer
    /\ dir = s.dir
    /\ clock = s.clock
    /\ next_uuid = s.next_uuid
    /\ compactions = s.compactions
    /\ thresholds =
           [stale_fraction_for_compaction |-> s.stale_fraction_for_compaction,
            min_records_before_compaction |-> s.min_records_before_compaction]

\* an empty directory, no store
NoStore ==
    [index |-> NoIndex, stale_count |-> 0, file_path |-> NoPath,
     reader |-> NoHandle, writer |-> NoWriter, dir |-> NoDir, clock |-> 0,
     next_uuid |-> 1, compactions |-> 0,
     stale_fraction_for_compaction |-> stale_fraction_for_compaction,
     min_records_before_compaction |-> min_records_before_compaction,
     os |-> Calm]

\* The initial states: a store opened on an empty directory, on which the
\* keys 1..n were set to value 1 and then, m times, a key set again to value 2
\* (the keys 1..n in turn).  With M the compaction minimum and q the least
\* stale count that compacts a store of M keys, the shapes <<n, m>> are:
\*   <<0, 0>>           the empty store
\*   <<M - 1, q>>       one new key away from the first compaction
\*   <<M, 2q - 1>>      compacted at the q-th overwrite, one overwrite away
\*                      from the second compaction
\*   <<M + 1, 2q>>      compacted at the q+1-st overwrite, one removal away
\*                      from the second compaction
StaleAtMin ==
    (min_records_before_compaction * stale_fraction_for_compaction.num
        + stale_fraction_for_compaction.den - 1) \div stale_fraction_for_compaction.den
PreloadShapes ==
    { <<0, 0>>,
      <<min_records_before_compaction - 1, StaleAtMin>>,
      <<min_records_before_compaction, 2 * StaleAtMin - 1>>,
      <<min_records_before_compaction + 1, 2 * StaleAtMin>> }

\* the i-th call of the preload
PreloadCall(s, n, i) == IF i <= n THEN set(s, i, 1).s ELSE set(s, i - n, 2).s

\* the calls lo..hi of the preload (evaluated in two halves)
RECURSIVE Preload(_, _, _, _)
Preload(s, n, lo, hi) ==
    IF lo > hi THEN s
    ELSE IF lo = hi THEN PreloadCall(s, n, lo)
    ELSE LET rest(half) ==
                 IF Evaluated(half) THEN Preload(half, n, (lo + hi) \div 2 + 1, hi) ELSE half
         IN rest(Preload(s, n, lo, (lo + hi) \div 2))

Preloaded(shape) ==
    LET p == CHOOSE p \in use_existing_or_create_new_db_log_path(NoStore) : TRUE
    IN Preload(open(NoStore, p).s, shape[1], 1, shape[1] + shape[2])

\* no second KvStore
NoPeer ==
    [index |-> NoIndex, stale_count |-> 0, file_path |-> NoPath,
     reader |-> NoHandle, writer |-> NoWriter]

\* no I/O call failed
NoFault == [call |-> "none", at |-> "none", decode |-> "none", before |-> None]

NoCall(op) ==
    [op |-> op, key |-> 0, value |-> 0, res |-> Ok(Unit), before_compact |-> None]

Init ==
    \E shape \in PreloadShapes :
        /\ InitStore(Preloaded(shape))
        /\ phase = "open"
        /\ kv = [k \in AllKeys |-> IF k <= shape[2] THEN Some(2)
                                   ELSE IF k <= shape[1] THEN Some(1) ELSE None]
        /\ last = NoCall("init")
        /\ dropped = [index |-> NoIndex, stale_count |-> 0, view |-> None]
        /\ fault = NoFault
        /\ peer = NoPeer
        /\ steps = 0

\* what is recorded of the store just before a compaction
Snapshot(s) == [keys |-> DOMAIN s.index, view |-> View(s)]

\* store.set(key, value)
Set(key, value) ==
    /\ phase = "open"
    /\ steps < MaxSteps
    /\ LET call(r, mid) ==
               /\ Becomes(r.s)
               /\ kv' = IF r.res.ok THEN [kv EXCEPT ![key] = Some(value)] ELSE kv
               /\ last' = [op |-> "set", key |-> key, value |-> value, res |-> r.res,
                           before_compact |->
                               IF r.s.compactions > compactions
                               THEN Some(Snapshot(mid)) ELSE None]
       IN call(set(Store, key, value), set_record(Store, key, value).s)
    /\ steps' = steps + 1
    /\ UNCHANGED <<phase, dropped, fault, peer>>

\* store.get(key)
Get(key) ==
    /\ phase = "open"
    /\ LET call(r) ==
               /\ Becomes(r.s)
               /\ last' = [op |-> "get", key |-> key, value |-> 0, res |-> r.res,
                           before_compact |-> None]
       IN call(get(Store, key))
    /\ UNCHANGED <<phase, kv, dropped, fault, peer, steps>>

\* store.remove(key)
Remove(key) ==
    /\ phase = "open"
    /\ steps < MaxSteps
    /\ LET call(r, mid) ==
               /\ Becomes(r.s)
               /\ kv' = IF r.res.ok THEN [kv EXCEPT ![key] = None] ELSE kv
               /\ last' = [op |-> "remove", key |-> key, value |-> 0, res |-> r.res,
                           before_compact |->
                               IF r.s.compactions > compactions
                               THEN Some(Snapshot(mid)) ELSE None]
               /\ steps' = IF r.res.ok THEN steps + 1 ELSE steps
       IN call(remove(Store, key), remove_record(Store, key).s)
    /\ UNCHANGED <<phase, dropped, fault, peer>>

\* the store goes out of scope
Drop ==
    /\ phase = "open"
    /\ Becomes(drop(Store))
    /\ phase' = "closed"
    /\ dropped' = [index |-> index, stale_count |-> stale_count, view |-> View(Store)]
    /\ last' = NoCall("drop")
    /\ UNCHANGED <<kv, fault, peer, steps>>

\* KvStore::open(dir)
Open ==
    /\ phase = "closed"
    /\ \E db_path \in use_existing_or_create_new_db_log_path(Store) :
           LET call(r) ==
                   /\ Becomes(r.s)
                   /\ last' = [NoCall("open") EXCEPT !.res = r.res]
           IN call(open(Store, db_path))
    /\ phase' = "open"
    /\ UNCHANGED <<kv, dropped, fault, peer, steps>>

\* KvStore::new(dir)
New ==
    /\ phase = "closed"
    /\ steps < MaxSteps
    /\ \E db_path \in use_existing_or_create_new_db_log_path(Store) :
           LET call(r) ==
                   /\ Becomes(r.s)
                   /\ last' = [NoCall("new") EXCEPT !.res = r.res]
           IN call(new(Store, db_path))
    /\ phase' = "open"
    /\ kv' = [k \in AllKeys |-> None]
    /\ steps' = steps + 1
    /\ UNCHANGED <<dropped, fault, peer>>

Next ==
    \/ \E key \in ActKeys, value \in Values : Set(key, value)
    \/ \E key \in ActKeys : Get(key)
    \/ \E key \in ActKeys : Remove(key)
    \/ Drop
    \/ Open
    \/ New

Spec == Init /\ [][Next]_vars


\* ---------------------------------------------------------------- claims
\* the records of the store's current log, by offset
LogRecs == dir[file_path].recs

\* C1: get(k) returns Some(v), v the value of the most recent successful
\* set(k, _), when no successful remove(k) came after that set; for every key
\* of an open store, and for the result the last get call returned.
C1_GetReturnsLastSet ==
    phase = "open" =>
        /\ \A k \in AllKeys : kv[k] # None => get(Store, k).res = Ok(kv[k])
        /\ (last.op = "get" /\ kv[last.key] # None) => last.res = Ok(kv[last.key])

\* a get returned the value a set of this run wrote, after the second compaction
C1_Witness ==
    /\ last.op = "get"
    /\ last.res.ok /\ last.res.val # None
    /\ compactions >= 2
    /\ steps >= 1

\* C2: get(k) returns Ok(None) for a key never set on the store and for a key
\* removed and not set since.
C2_GetNoneWhenAbsent ==
    phase = "open" =>
        /\ \A k \in AllKeys : kv[k] = None => get(Store, k).res = Ok(None)
        /\ (last.op = "get" /\ kv[last.key] = None) => last.res = Ok(None)

\* a get returned None for a key whose tombstone is in the log
C2_Witness ==
    /\ last.op = "get"
    /\ last.res = Ok(None)
    /\ \E o \in DOMAIN LogRecs : LogRecs[o].key = last.key /\ LogRecs[o].value = None

\* C3: after drop and open, get returns for every key what it returned on the
\* old store just before the drop.
C3_ReopenPreservesView ==
    last.op = "open" => View(Store) = dropped.view

\* reopened after a run in which key 1 was removed and a compaction ran
C3_Witness ==
    /\ last.op = "open"
    /\ compactions >= 2
    /\ steps >= 1
    /\ kv[1] = None
    /\ \E k \in AllKeys : kv[k] # None

\* C4: after drop and open, the index and the stale counter equal the ones the
\* dropped instance held.
C4_ReplayRebuildsIndexAndStale ==
    last.op = "open" =>
        /\ index = dropped.index
        /\ stale_count = dropped.stale_count

\* reopened on a log that holds a tombstone and an overwritten record
C4_Witness ==
    /\ last.op = "open"
    /\ stale_count >= 2
    /\ index # NoIndex
    /\ \E o \in DOMAIN LogRecs : LogRecs[o].value = None

C6_DbKeyIsOffset ==
    \A p \in DOMAIN dir : \A o \in DOMAIN dir[p].recs : dir[p].recs[o].db_key = o

\* a reopened log, compacted during the run and appended to since
C6_Witness ==
    /\ last.op = "open"
    /\ compactions >= 2
    /\ stale_count >= 1
    /\ \E o \in DOMAIN LogRecs : o > 0 /\ LogRecs[o].db_key = o

\* C7: between operations, index[k] is the offset of the last record of k in
\* the current log and that record is a write; and every key whose last record
\* is a write is in the index.
C7_IndexPointsAtLastWrite ==
    phase = "open" =>
        /\ \A k \in DOMAIN index :
              /\ index[k] \in DOMAIN LogRecs
              /\ LogRecs[index[k]].key = k
              /\ LogRecs[index[k]].value # None
        /\ \A o \in DOMAIN LogRecs :
              LET k == LogRecs[o].key
              IN IF k \in DOMAIN index
                 THEN o <= index[k]
                 ELSE LogRecs[o].value # None
                          => \E o2 \in DOMAIN LogRecs : o2 > o /\ LogRecs[o2].key = k

\* a log that holds, for a key of the index, a tombstone before its live record
C7_Witness ==
    /\ phase = "open"
    /\ \E k \in DOMAIN index :
          \E o \in DOMAIN LogRecs :
              o < index[k] /\ LogRecs[o].key = k /\ LogRecs[o].value = None
    /\ steps >= 2

\* C8, as claimed: the stale counter equals the number of records in the
\* current log minus index.len().
C8_StaleCountsAllDeadRecords ==
    phase = "open" =>
        stale_count = Cardinality(DOMAIN LogRecs) - Cardinality(DOMAIN index)

\* C8, amended: the stale counter equals the number of write records (value
\* present) in the current log minus index.len(); tombstones are not counted.
C8_StaleCountsDeadWrites ==
    phase = "open" =>
        stale_count =
            Cardinality({o \in DOMAIN LogRecs : LogRecs[o].value # None})
                - Cardinality(DOMAIN index)

\* a log with a tombstone and a positive stale counter
C8_Witness ==
    /\ phase = "open"
    /\ stale_count >= 1
    /\ \E o \in DOMAIN LogRecs : LogRecs[o].value = None
    /\ last.op \in {"set", "remove"}

\* C9: a step runs a compaction, and exactly one, if and only if it is a set
\* or remove whose append succeeded and index.len() >= min_records and
\* stale_count / index.len() >= stale_fraction hold for the index and stale
\* counter as that mutation updated them; no other step runs one.
C9_CompactionRunsIffTriggered ==
    [][LET op == last'.op
           k  == last'.key
           mutated == phase = "open" /\ op \in {"set", "remove"} /\ last'.res.ok
           len_after ==
               IF op = "set" THEN Cardinality(DOMAIN index \cup {k})
               ELSE Cardinality(DOMAIN index \ {k})
           stale_after ==
               IF op = "set" /\ k \notin DOMAIN index THEN stale_count
               ELSE stale_count + 1
           triggered ==
               /\ mutated
               /\ len_after >= min_records_before_compaction
               /\ stale_after * stale_fraction_for_compaction.den
                      >= stale_fraction_for_compaction.num * len_after
       IN compactions' = IF triggered THEN compactions + 1 ELSE compactions]_vars

\* a set ran a compaction
C9_Witness ==
    /\ last.op = "set"
    /\ last.before_compact # None

\* C10: a compaction keeps the keys of the index and what get returns for
\* every key.
C10_CompactionPreservesLiveState ==
    last.before_compact # None =>
        /\ DOMAIN index = last.before_compact[1].keys
        /\ View(Store) = last.before_compact[1].view

\* a remove ran a compaction of a store with live keys
C10_Witness ==
    /\ last.op = "remove"
    /\ last.before_compact # None
    /\ index # NoIndex


\* C11: immediately after a successful compaction the stale counter is 0 and
\* the active log holds exactly index.len() records and nothing else: one
\* record per key of the index, at the offset the index gives, none of them a
\* tombstone.
C11_CompactedLogHoldsLiveRecords ==
    last.before_compact # None =>
        /\ stale_count = 0
        /\ Cardinality(DOMAIN LogRecs) = Cardinality(DOMAIN index)
        /\ ScanOffsets(dir[file_path], 0) = DOMAIN LogRecs
        /\ dir[file_path].part = NoRecs
        /\ \A k \in DOMAIN index :
              index[k] \in DOMAIN LogRecs /\ LogRecs[index[k]].key = k
        /\ \A o \in DOMAIN LogRecs :
              LogRecs[o].value # None /\ LogRecs[o].key \in DOMAIN index

\* a set ran the second compaction of a log: the store holds the minimum of keys
C11_Witness ==
    /\ last.op = "set"
    /\ last.res.ok
    /\ last.before_compact # None
    /\ compactions >= 2
    /\ Cardinality(DOMAIN index) >= min_records_before_compaction

\* ------------------------------------------- a store with other thresholds
\* The scenario of C12 supposes a store whose two threshold fields hold 4 and
\* 0.5.  init_self only ever stores 100 and 0.25 and nothing in lib.rs assigns
\* the fields afterwards; SpecThresholds starts from a fresh store with the
\* fields as the scenario supposes them and runs set on it.

\* number of set calls of the scenario's store
ScenarioSets == 6
ScenarioKeys == 1 .. 4
ScenarioThresholds ==
    [stale_fraction_for_compaction |-> [num |-> 1, den |-> 2],
     min_records_before_compaction |-> 4]

ScenarioStore ==
    LET p == CHOOSE p \in use_existing_or_create_new_db_log_path(NoStore) : TRUE
    IN [open(NoStore, p).s EXCEPT
          !.stale_fraction_for_compaction = ScenarioThresholds.stale_fraction_for_compaction,
          !.min_records_before_compaction = ScenarioThresholds.min_records_before_compaction]

InitThresholds ==
    /\ InitStore(ScenarioStore)
    /\ phase = "open"
    /\ kv = [k \in AllKeys |-> None]
    /\ last = NoCall("init")
    /\ dropped = [index |-> NoIndex, stale_count |-> 0, view |-> None]
    /\ fault = NoFault
    /\ peer = NoPeer
    /\ steps = 0

\* the steps+1-st call of the scenario: store.set(key, v), v the number of the call
ScenarioSet(key) ==
    /\ phase = "open"
    /\ steps < ScenarioSets
    /\ LET value == steps + 1
           call(r, mid) ==
               /\ Becomes(r.s)
               /\ kv' = IF r.res.ok THEN [kv EXCEPT ![key] = Some(value)] ELSE kv
               /\ last' = [op |-> "set", key |-> key, value |-> value, res |-> r.res,
                           before_compact |->
                               IF r.s.compactions > compactions
                               THEN Some(Snapshot(mid)) ELSE None]
       IN call(set(Store, key, value), set_record(Store, key, value).s)
    /\ steps' = steps + 1
    /\ UNCHANGED <<phase, dropped, fault, peer>>

NextThresholds == \E key \in ScenarioKeys : ScenarioSet(key)

SpecThresholds == InitThresholds /\ [][NextThresholds]_vars

\* the five calls so far were all set(k, _), for one key k
FiveSetsOf(k) ==
    /\ steps = 5
    /\ kv[k] = Some(5)
    /\ \A k2 \in AllKeys \ {k} : kv[k2] = None

FaultSkips == 0 .. 1
\* the number of bytes of a record a failing write still hands over
PartBytes == {0, 3}
\* the value of the sets of SpecFaults
FaultValues == {2}
\* what from_reader reports when its read fails
DecodeErrors == {"Asn1DerError", "Other"}

Plan(call, skip, part, decode) ==
    [Calm EXCEPT !.call = call, !.skip = skip, !.part = part, !.decode = decode]

\* one failing call: of File::open, seek, stream_position, fs::rename and
\* fs::remove_file; of to_writer and flush, which write; of from_reader
FaultPlans ==
    {Plan(call, skip, 0, "Asn1DerError") :
        call \in {"open", "seek", "stream_position", "rename", "remove_file"},
        skip \in FaultSkips}
    \cup {Plan(call, skip, part, "Asn1DerError") :
        call \in {"to_writer", "flush"}, skip \in FaultSkips, part \in PartBytes}
    \cup {Plan("from_reader", skip, 0, decode) :
        skip \in FaultSkips, decode \in DecodeErrors}

\* the I/O calls of the while loop of
\* copy_active_records_to_compaction_file_and_update_indexes
CopyCalls == {"from_reader", "stream_position", "to_writer", "flush"}

\* the store of the current state while the operating system follows plan
Under(plan) == [Store EXCEPT !.os = plan]

\* what is recorded of a store before a call that fails
Fields(s) ==
    [index |-> s.index, stale_count |-> s.stale_count, file_path |-> s.file_path,
     reader |-> s.reader.path, writer |-> s.writer,
     size |-> s.dir[s.file_path].size, files |-> DOMAIN s.dir,
     view |-> View([s EXCEPT !.os = Calm])]

\* the failure of a call that went from store value m (after the append) to r
FaultOf(plan, m, r) ==
    IF r.s.os.call = plan.call THEN NoFault
    ELSE IF m.res.ok
    THEN [call |-> plan.call, at |-> "compact", decode |-> plan.decode,
          before |-> Some(Fields(m.s))]
    ELSE [call |-> plan.call, at |-> "append", decode |-> plan.decode,
          before |-> Some(Fields(Store))]

\* the initial states of SpecFaults: the stores one mutation away from a
\* compaction
FaultShapes ==
    { <<min_records_before_compaction - 1, StaleAtMin>>,
      <<min_records_before_compaction, 2 * StaleAtMin - 1>> }

InitFaults ==
    \E shape \in FaultShapes :
        /\ InitStore(Preloaded(shape))
        /\ phase = "open"
        /\ kv = [k \in AllKeys |-> IF k <= shape[2] THEN Some(2)
                                   ELSE IF k <= shape[1] THEN Some(1) ELSE None]
        /\ last = NoCall("init")
        /\ dropped = [index |-> NoIndex, stale_count |-> 0, view |-> None]
        /\ fault = NoFault
        /\ peer = NoPeer
        /\ steps = 0

\* store.set(key, value) while the operating system follows plan
FaultySet(plan, key, value) ==
    /\ phase = "open"
    /\ steps < MaxSteps
    /\ LET call(m, r) ==
               /\ Becomes(r.s)
               /\ kv' = IF r.res.ok THEN [kv EXCEPT ![key] = Some(value)] ELSE kv
               /\ last' = [op |-> "set", key |-> key, value |-> value, res |-> r.res,
                           before_compact |->
                               IF r.s.compactions > compactions
                               THEN Some(Snapshot([m.s EXCEPT !.os = Calm])) ELSE None]
               /\ fault' = FaultOf(plan, m, r)
       IN call(set_record(Under(plan), key, value), set(Under(plan), key, value))
    /\ steps' = steps + 1
    /\ UNCHANGED <<phase, dropped, peer>>

\* store.remove(key) while the operating system follows plan
FaultyRemove(plan, key) ==
    /\ phase = "open"
    /\ steps < MaxSteps
    /\ key \in DOMAIN index
    /\ LET call(m, r) ==
               /\ Becomes(r.s)
               /\ kv' = IF r.res.ok THEN [kv EXCEPT ![key] = None] ELSE kv
               /\ last' = [op |-> "remove", key |-> key, value |-> 0, res |-> r.res,
                           before_compact |->
                               IF r.s.compactions > compactions
                               THEN Some(Snapshot([m.s EXCEPT !.os = Calm])) ELSE None]
               /\ fault' = FaultOf(plan, m, r)
       IN call(remove_record(Under(plan), key), remove(Under(plan), key))
    /\ steps' = steps + 1
    /\ UNCHANGED <<phase, dropped, peer>>

NextFaults ==
    \/ \E plan \in FaultPlans, key \in ActKeys, value \in FaultValues :
           FaultySet(plan, key, value)
    \/ \E plan \in FaultPlans, key \in ActKeys : FaultyRemove(plan, key)
    \/ \E key \in ActKeys : Get(key)

SpecFaults == InitFaults /\ [][NextFaults]_vars

\* the last call was a set or remove whose compaction met the failure of one
\* of calls
FailedInCompaction(calls) ==
    /\ last.op \in {"set", "remove"}
    /\ fault.at = "compact"
    /\ fault.call \in calls

\* C13: when reading a record of the old log or writing a record to the
\* compact file fails during the copy phase of compaction, the call returns
\* IoError, no .compact file is left, index, file path, reader and writer are
\* the ones from before the compaction, and get returns for every key what it
\* returned before.
C13_CopyFailureRollsBack ==
    FailedInCompaction(CopyCalls) =>
        /\ last.res = IoError
        /\ \A p \in DOMAIN dir : p.ext # "compact"
        /\ index = fault.before[1].index
        /\ file_path = fault.before[1].file_path
        /\ reader.path = fault.before[1].reader
        /\ writer = fault.before[1].writer
        /\ View(Store) = fault.before[1].view

\* C14: whenever compaction returns an error, at whichever step, index, stale
\* counter, file path, reader and writer are the ones from before the
\* compaction.
C14_FailedCompactionChangesNothing ==
    (/\ last.op \in {"set", "remove"}
     /\ fault.at = "compact"
     /\ ~last.res.ok) =>
        /\ index = fault.before[1].index
        /\ stale_count = fault.before[1].stale_count
        /\ file_path = fault.before[1].file_path
        /\ reader.path = fault.before[1].reader
        /\ writer = fault.before[1].writer

\* C15: when the append of set or remove fails, in the encoding or in the
\* flush after it, the length of the log file and the position of the writer
\* are again the offset the record was to be written at, and no byte of the
\* record is in the file or waits in the writer's buffer.
C15_FailedAppendRestoresLog ==
    (/\ last.op \in {"set", "remove"}
     /\ fault.at = "append"
     /\ fault.call \in {"to_writer", "flush"}) =>
        /\ dir[file_path].size = fault.before[1].size
        /\ writer.pos = fault.before[1].writer.pos
        /\ DOMAIN dir[file_path].part = {}
        /\ writer.buf = fault.before[1].writer.buf

\* --------------------------------------------------------------- crashes
\* SpecCrash runs set and remove on a process that can die: at the skip+1-st
\* I/O call of one kind of a set or remove (a dying flush has handed over the
\* first part bytes of the record), or between two calls of the store.  The
\* directory keeps what was handed to the operating system; the store, with
\* what waits in the writer's buffer, is gone.  KvStore::open follows.

\* the result of a call that never returned
NoReturn == [ok |-> FALSE, val |-> None, err |-> "crash"]

\* the process dies at one I/O call; the file system may stamp the writes of
\* the call with the time of the write before them
CrashPlans ==
    {[plan EXCEPT !.crash = TRUE, !.coarse = coarse] :
        plan \in FaultPlans, coarse \in BOOLEAN}

\* the initial states of SpecCrash: the empty store and the store one
\* overwrite away from its second compaction
CrashShapes ==
    { <<0, 0>>,
      <<min_records_before_compaction, 2 * StaleAtMin - 1>> }

InitCrash ==
    \E shape \in CrashShapes :
        /\ InitStore(Preloaded(shape))
        /\ phase = "open"
        /\ kv = [k \in AllKeys |-> IF k <= shape[2] THEN Some(2)
                                   ELSE IF k <= shape[1] THEN Some(1) ELSE None]
        /\ last = NoCall("init")
        /\ dropped = [index |-> NoIndex, stale_count |-> 0, view |-> None]
        /\ fault = NoFault
        /\ peer = NoPeer
        /\ steps = 0

\* the record of a crash in a call that went from store value m (after the
\* append) to r
CrashOf(m, r) ==
    IF r.s.os.call # "dead" THEN NoFault
    ELSE IF m.res.ok
    THEN [call |-> "crash", at |-> "compact", decode |-> "none",
          before |-> Some(Fields(m.s))]
    ELSE [call |-> "crash", at |-> "append", decode |-> "none",
          before |-> Some(Fields(Store))]

\* the mutation op(key, value) under plan, which took the store from m (after
\* the append) to r: it returned, or the process died in it
Mutation(op, key, value, m, r) ==
    LET died == r.s.os.call = "dead"
    IN /\ Becomes(IF died THEN drop(r.s) ELSE r.s)
       /\ phase' = IF died THEN "closed" ELSE "open"
       /\ kv' = IF r.res.ok THEN [kv EXCEPT ![key] = value] ELSE kv
       /\ last' = [op |-> op, key |-> key,
                   value |-> IF value = None THEN 0 ELSE value[1],
                   res |-> IF died THEN NoReturn ELSE r.res,
                   before_compact |->
                       IF r.s.compactions > compactions
                       THEN Some(Snapshot([m.s EXCEPT !.os = Calm])) ELSE None]
       /\ fault' = CrashOf(m, r)
       /\ steps' = steps + 1
       /\ UNCHANGED <<dropped, peer>>

\* store.set(key, value) on a process that dies as plan says
CrashingSet(plan, key, value) ==
    /\ phase = "open"
    /\ steps < MaxSteps
    /\ Mutation("set", key, Some(value),
                set_record(Under(plan), key, value), set(Under(plan), key, value))

\* store.remove(key) on a process that dies as plan says
CrashingRemove(plan, key) ==
    /\ phase = "open"
    /\ steps < MaxSteps
    /\ key \in DOMAIN index
    /\ Mutation("remove", key, None,
                remove_record(Under(plan), key), remove(Under(plan), key))

\* the process dies between two calls of the store
Crash ==
    /\ phase = "open"
    /\ Becomes(drop([Store EXCEPT !.os.call = "dead"]))
    /\ phase' = "closed"
    /\ last' = NoCall("crash")
    /\ fault' = [call |-> "crash",
                 at |-> IF last.before_compact # None THEN "compact" ELSE "idle",
                 decode |-> "none",
                 before |-> Some(IF last.before_compact # None
                                 THEN [Fields(Store) EXCEPT
                                         !.view = last.before_compact[1].view]
                                 ELSE Fields(Store))]
    /\ UNCHANGED <<kv, dropped, peer, steps>>

\* the mutation that was in flight when the process died, if any
InFlight ==
    IF last.res # NoReturn THEN None
    ELSE Some([key |-> last.key,
               value |-> IF last.op = "set" THEN Some(last.value) ELSE None])

\* KvStore::open(dir) by a new process; from_reader reports octets that are no
\* record as decode says.  A mutation that was in flight and is found in the
\* log counts from now on as one that happened.
Reopen(decode) ==
    /\ phase = "closed"
    /\ \E db_path \in use_existing_or_create_new_db_log_path(Store) :
           LET call(r) ==
                   /\ Becomes(r.s)
                   /\ phase' = IF r.res.ok THEN "open" ELSE "closed"
                   /\ last' = [NoCall("open") EXCEPT !.res = r.res]
                   /\ kv' = IF /\ InFlight # None
                               /\ r.res.ok
                               /\ get(r.s, InFlight[1].key).res = Ok(InFlight[1].value)
                            THEN [kv EXCEPT ![InFlight[1].key] = InFlight[1].value]
                            ELSE kv
           IN call(open(Under([Calm EXCEPT !.decode = decode]), db_path))
    /\ UNCHANGED <<dropped, fault, peer, steps>>

NextCrash ==
    \/ \E plan \in CrashPlans \cup {Calm}, key \in ActKeys, value \in FaultValues :
           CrashingSet(plan, key, value)
    \/ \E plan \in CrashPlans \cup {Calm}, key \in ActKeys : CrashingRemove(plan, key)
    \/ Crash
    \/ \E decode \in DecodeErrors : Reopen(decode)

SpecCrash == InitCrash /\ [][NextCrash]_vars

\* the offset at which the reads of load_index stop decoding records
EndOfRecords(file) ==
    LET read == ScanOffsets(file, 0)
        ends == {o + RecLen(file.recs[o]) : o \in read}
    IN IF read = {} THEN 0 ELSE CHOOSE e \in ends : \A e2 \in ends : e2 <= e

\* the file holds bytes that do not decode as a complete record
Undecodable(file) == EndOfRecords(file) < file.size

\* C16: open on a directory whose newest log holds bytes that do not decode
\* as a complete record fails with IoError.
C16_OpenFailsOnUndecodableLog ==
    (/\ last.op = "open"
     /\ latest_log_for_dir(dir) # {}
     /\ \A p \in latest_log_for_dir(dir) : Undecodable(dir[p])) =>
        last.res = IoError

\* C17: an open that follows a crash returns a store in which every key has
\* the value of the last mutation of the key that had returned success, or of
\* the mutation that was in flight at the crash where the log holds that one
\* whole (see Reopen).
C17_CrashKeepsReturnedMutations ==
    last.op = "open" =>
        /\ last.res.ok
        /\ \A k \in AllKeys : get(Store, k).res = Ok(kv[k])

\* the log files of the directory that were not there when the compaction
\* started
NewLogs ==
    {p \in DOMAIN dir : is_db_log(dir, p) /\ p \notin fault.before[1].files}

\* the last call is an open that follows a crash in a compaction
OpenedAfterCrashInCompaction ==
    /\ last.op = "open"
    /\ fault.call = "crash"
    /\ fault.at = "compact"

\* C18, as claimed: after a crash at any point of a compaction, open returns a
\* store that maps the keys as the store did when the compaction started, and
\* when the old and the new .log file are both there it is on the new one,
\* whose modification time is strictly greater.
C18_CrashInCompactionOpensNewLog ==
    OpenedAfterCrashInCompaction =>
        /\ last.res.ok
        /\ View(Store) = fault.before[1].view
        /\ (fault.before[1].file_path \in DOMAIN dir /\ NewLogs # {}) =>
               /\ file_path \in NewLogs
               /\ dir[file_path].mtime > dir[fault.before[1].file_path].mtime

\* ------------------------------------------------- the directory open finds
\* SpecDirs runs KvStore::open (and the drop of the store) on directories that
\* hold any of: two logs, a compact file, a file whose stem is one character
\* short, a file with another prefix and a directory named like a log.

\* the modification times of the entries
DirTimes == 1 .. 2
\* the uuid of the first path minted in such a directory
DirUuid == 7

\* a log that holds one record, set(1, value)
LogFile(value, t) ==
    LET rec == [db_key |-> 0, key |-> 1, value |-> Some(value)]
    IN [recs |-> (0 :> rec), part |-> NoRecs, size |-> RecLen(rec), mtime |-> t,
        is_file |-> TRUE]

\* the entries a directory can hold, each with the file it is at time t
DirEntries(t) ==
    << <<Path(1, "log"), LogFile(1, t)>>,
       <<Path(2, "log"), LogFile(2, t)>>,
       <<Path(3, "compact"), LogFile(1, t)>>,
       <<[Path(4, "log") EXCEPT !.hex = 31], LogFile(1, t)>>,
       <<[Path(5, "log") EXCEPT !.stem = "notes-"], LogFile(1, t)>>,
       <<Path(6, "log"), [EmptyFile(t) EXCEPT !.is_file = FALSE]>> >>

\* the directory that holds the i-th entry as it is at time times[i], for
\* every i with times[i] > 0
DirOf(times) ==
    LET held == {i \in DOMAIN times : times[i] > 0}
        paths == {DirEntries(times[i])[i][1] : i \in held}
    IN [p \in paths |->
           LET i == CHOOSE i \in held : DirEntries(times[i])[i][1] = p
           IN DirEntries(times[i])[i][2]]

InitDirs ==
    \E times \in [DOMAIN DirEntries(0) -> {0} \cup DirTimes] :
        /\ InitStore([NoStore EXCEPT !.dir = DirOf(times), !.clock = 2,
                                     !.next_uuid = DirUuid])
        /\ phase = "closed"
        /\ kv = [k \in AllKeys |-> None]
        /\ last = NoCall("init")
        /\ dropped = [index |-> NoIndex, stale_count |-> 0, view |-> None]
        /\ fault = NoFault
        /\ peer = NoPeer
        /\ steps = 0

NextDirs == Open \/ Drop

SpecDirs == InitDirs /\ [][NextDirs]_vars

\* C19: open uses, among the regular files of the directory whose stem is
\* kvsdb- and 32 more characters and whose extension is log, one that no other
\* is newer than (never a .compact file), and leaves the directory as it is;
\* when no file matches, it creates a new kvsdb-<uuid>.log and the store is
\* empty.
C19_OpenUsesNewestLog ==
    [][last'.op = "open" =>
          LET logs == {p \in DOMAIN dir :
                          /\ dir[p].is_file
                          /\ p.stem = "kvsdb-" /\ p.hex = 32
                          /\ p.ext = "log"}
          IN IF logs # {}
             THEN /\ file_path' \in logs
                  /\ \A q \in logs : dir[q].mtime <= dir[file_path'].mtime
                  /\ file_path'.ext # "compact"
                  /\ dir' = dir
             ELSE /\ file_path' \notin DOMAIN dir
                  /\ file_path'.stem = "kvsdb-" /\ file_path'.hex = 32
                  /\ file_path'.ext = "log"
                  /\ DOMAIN dir' = DOMAIN dir \cup {file_path'}
                  /\ dir'[file_path'].is_file /\ dir'[file_path'].size = 0
                  /\ index' = NoIndex
                  /\ \A k \in AllKeys : get(Store, k).res' = Ok(None)]_vars

\* open has chosen the newer of two logs in a directory that also holds a
\* compact file and entries that only look like logs
C19_Witness ==
    /\ last.op = "open"
    /\ last.res.ok
    /\ {Path(1, "log"), Path(2, "log"), Path(3, "compact")} \subseteq DOMAIN dir
    /\ \E p \in DOMAIN dir : p.hex = 31
    /\ \E p \in DOMAIN dir : ~dir[p].is_file
    /\ dir[Path(1, "log")].mtime < dir[Path(2, "log")].mtime
    /\ dir[Path(3, "compact")].mtime = dir[Path(2, "log")].mtime
    /\ file_path = Path(2, "log")
    /\ get(Store, 1).res = Ok(Some(2))

\* C20: KvStore::new returns an empty store (index empty, stale_count 0, get
\* None for every key) on the newest log of the directory, which is 0 bytes
\* long; and an open after the drop of a store that nothing was set on since
\* new finds every key absent.
C20_NewYieldsEmptyStore ==
    /\ last.op = "new" =>
          /\ last.res.ok
          /\ index = NoIndex
          /\ stale_count = 0
          /\ \A k \in AllKeys : get(Store, k).res = Ok(None)
          /\ dir[file_path].size = 0
          /\ \A p \in DOMAIN dir :
                 p.ext = "log" => dir[p].mtime <= dir[file_path].mtime
    /\ (last.op = "open" /\ \A k \in AllKeys : kv[k] = None) =>
          \A k \in AllKeys : get(Store, k).res = Ok(None)

\* a store was opened again after new had emptied a log of a hundred keys and
\* the new store was dropped
C20_Witness ==
    /\ last.op = "open"
    /\ \A k \in AllKeys : kv[k] = None
    /\ steps = 1
    /\ clock > min_records_before_compaction
    /\ dir[file_path].size = 0
    /\ index = NoIndex

\* ------------------------------------------------------ the errors of get
\* the keys get is asked for: the keys of the calls and a key never set
GetKeys == ActKeys \cup {min_records_before_compaction + 1}

\* what get returns for key while the operating system follows plan
GetUnder(plan, key) == get(Under(plan), key).res

\* C21: get never returns KeyNotPresent: for a key absent from the index it
\* returns Ok(None), whichever I/O call would fail; the only error it
\* returns, with or without a failing I/O call, is IoError; and the only call
\* that returned KeyNotPresent is remove.
C21_GetNeverKeyNotPresent ==
    phase = "open" =>
        /\ \A plan \in FaultPlans \cup {Calm}, k \in GetKeys :
               /\ k \notin DOMAIN index => GetUnder(plan, k) = Ok(None)
               /\ ~GetUnder(plan, k).ok => GetUnder(plan, k) = IoError
        /\ (last.op = "get" /\ last.key \notin DOMAIN index) => last.res = Ok(None)
        /\ last.res = Err("KeyNotPresent") => last.op = "remove"

\* get returned Ok(None) for a key absent from the index, on a store where
\* get of a key in the index fails when the seek or the read fails
C21_Witness ==
    /\ phase = "open"
    /\ last.op = "get"
    /\ last.key \notin DOMAIN index
    /\ last.res = Ok(None)
    /\ \E k \in GetKeys :
           /\ k \in DOMAIN index
           /\ GetUnder(Plan("seek", 0, 0, "Asn1DerError"), k) = IoError
           /\ GetUnder(Plan("from_reader", 0, 0, "Other"), k) = IoError

\* ------------------------------------------------- the kvs command line
\* SpecCli runs the kvs binary in one directory, one invocation after the
\* other.  Each invocation opens the store of the directory, makes one call
\* and drops the store when its handler returns.

\* the exit status of a process whose main returns res: 0 for Ok(()), and for
\* Err the status of a failed process
ExitFailure == 1
report(res) == IF res.ok THEN 0 ELSE ExitFailure

\* the standard output, line by line: a line is a literal of the program or a
\* value of the store
\* println!("Key not found")
KeyNotFound == <<[literal |-> "Key not found", value |-> None]>>
\* println!("{}", value)
Printed(value) == <<[literal |-> "", value |-> Some(value)]>>

\* handle_subcommand_set: what main returns, the directory the process
\* leaves, the lines on its standard output
handle_subcommand_set(s, db_path, key, value) ==
    LET done(r) == [res |-> r.res, s |-> drop(r.s), stdout |-> <<>>]
        opened(o) ==
            IF ~o.res.ok THEN [res |-> o.res, s |-> o.s, stdout |-> <<>>]
            ELSE done(set(o.s, key, value))
    IN opened(open(s, db_path))

\* handle_subcommand_get
handle_subcommand_get(s, db_path, key) ==
    LET done(r) ==
            [res    |-> IF r.res.ok THEN Ok(Unit) ELSE r.res,
             s      |-> drop(r.s),
             stdout |-> IF ~r.res.ok THEN <<>>
                        ELSE IF r.res.val = None THEN KeyNotFound
                        ELSE Printed(r.res.val[1])]
        opened(o) ==
            IF ~o.res.ok THEN [res |-> o.res, s |-> o.s, stdout |-> <<>>]
            ELSE done(get(o.s, key))
    IN opened(open(s, db_path))

\* handle_subcommand_rm that returns Ok(()) after it printed "Key not found"
handle_subcommand_rm_forgives_absent(s, db_path, key) ==
    LET done(r) ==
            [res    |-> IF r.res = Err("KeyNotPresent") THEN Ok(Unit) ELSE r.res,
             s      |-> drop(r.s),
             stdout |-> IF r.res = Err("KeyNotPresent") THEN KeyNotFound ELSE <<>>]
        opened(o) ==
            IF ~o.res.ok THEN [res |-> o.res, s |-> o.s, stdout |-> <<>>]
            ELSE done(remove(o.s, key))
    IN opened(open(s, db_path))

\* handle_subcommand_rm
handle_subcommand_rm(s, db_path, key) ==
    LET done(r) ==
            [res    |-> r.res,
             s      |-> drop(r.s),
             stdout |-> IF r.res = Err("KeyNotPresent") THEN KeyNotFound ELSE <<>>]
        opened(o) ==
            IF ~o.res.ok THEN [res |-> o.res, s |-> o.s, stdout |-> <<>>]
            ELSE done(remove(o.s, key))
    IN opened(open(s, db_path))

\* what is recorded of an invocation: the command, its arguments, what main
\* returned, the lines on the standard output and the exit status
Invocation(op, key, value, h) ==
    [op |-> op, key |-> key, value |-> value, res |-> h.res, before_compact |-> None,
     stdout |-> h.stdout, exit |-> report(h.res)]

\* the directories SpecCli starts with: an empty one, one with an empty log,
\* one with a log an overwrite away from a compaction
CliShapes == { <<0, 0>>, <<min_records_before_compaction, 2 * StaleAtMin - 1>> }

InitCli ==
    /\ \/ /\ InitStore(NoStore)
          /\ kv = [k \in AllKeys |-> None]
       \/ \E shape \in CliShapes :
              /\ InitStore(drop(Preloaded(shape)))
              /\ kv = [k \in AllKeys |-> IF k <= shape[2] THEN Some(2)
                                         ELSE IF k <= shape[1] THEN Some(1) ELSE None]
    /\ phase = "closed"
    /\ last = NoCall("init")
    /\ dropped = [index |-> NoIndex, stale_count |-> 0, view |-> None]
    /\ fault = NoFault
    /\ peer = NoPeer
    /\ steps = 0

\* kvs set <key> <value>
MainSet(key, value) ==
    /\ steps < MaxSteps
    /\ \E db_path \in use_existing_or_create_new_db_log_path(Store) :
           LET exits(h) ==
                   /\ Becomes(h.s)
                   /\ kv' = IF h.res.ok THEN [kv EXCEPT ![key] = Some(value)] ELSE kv
                   /\ last' = Invocation("kvs set", key, value, h)
           IN exits(handle_subcommand_set(Store, db_path, key, value))
    /\ steps' = steps + 1
    /\ UNCHANGED <<phase, dropped, fault, peer>>

\* kvs get <key>
MainGet(key) ==
    /\ \E db_path \in use_existing_or_create_new_db_log_path(Store) :
           LET exits(h) ==
                   /\ Becomes(h.s)
                   /\ last' = Invocation("kvs get", key, 0, h)
           IN exits(handle_subcommand_get(Store, db_path, key))
    /\ UNCHANGED <<phase, kv, dropped, fault, peer, steps>>

\* kvs rm <key>
MainRm(key) ==
    /\ steps < MaxSteps
    /\ \E db_path \in use_existing_or_create_new_db_log_path(Store) :
           LET exits(h) ==
                   /\ Becomes(h.s)
                   /\ kv' = IF h.res.ok THEN [kv EXCEPT ![key] = None] ELSE kv
                   /\ last' = Invocation("kvs rm", key, 0, h)
                   /\ steps' = IF h.res.ok THEN steps + 1 ELSE steps
           IN exits(handle_subcommand_rm(Store, db_path, key))
    /\ UNCHANGED <<phase, dropped, fault, peer>>

\* kvs with no subcommand: handle_invalid_command writes to the standard
\* error and exits with status 1 (a subcommand or an argument that is not
\* declared never reaches main's match: get_matches exits itself)
MainInvalid ==
    /\ last' = [op |-> "kvs", key |-> 0, value |-> 0, res |-> Ok(Unit),
                before_compact |-> None, stdout |-> <<>>, exit |-> 1]
    /\ UNCHANGED <<index, stale_count, file_path, reader, writer, dir, clock,
                   next_uuid, compactions, thresholds, phase, kv, dropped, fault, peer,
                   steps>>

NextCli ==
    \/ \E key \in ActKeys, value \in Values : MainSet(key, value)
    \/ \E key \in ActKeys : MainGet(key)
    \/ \E key \in ActKeys : MainRm(key)
    \/ MainInvalid

SpecCli == InitCli /\ [][NextCli]_vars

\* C22: kvs get of a key not in the store prints "Key not found" and exits
\* with 0; kvs rm of a key not in the store prints "Key not found" and exits
\* with a status that is not 0; an invocation with no valid command exits
\* with 1; kvs get of a key that an earlier invocation set, and none removed
\* since, prints the value of the last such set.
C22_CliOutcomes ==
    [][/\ (last'.op = "kvs get" /\ kv[last'.key] = None)
            => (last'.stdout = KeyNotFound /\ last'.exit = 0)
       /\ (last'.op = "kvs rm" /\ kv[last'.key] = None)
            => (last'.stdout = KeyNotFound /\ last'.exit # 0)
       /\ last'.op = "kvs" => last'.exit = 1
       /\ (last'.op = "kvs get" /\ kv[last'.key] # None)
            => (last'.stdout = Printed(kv[last'.key][1]) /\ last'.exit = 0)
       /\ (last.op = "kvs set" /\ last'.op = "kvs get" /\ last'.key = last.key)
            => last'.stdout = Printed(last.value)]_vars

\* kvs get printed the value an invocation of kvs set wrote, from a log that
\* invocation compacted, after kvs rm of the other key
C22_Witness ==
    /\ last.op = "kvs get"
    /\ last.stdout = Printed(1)
    /\ last.exit = 0
    /\ steps = MaxSteps
    /\ compactions >= 2
    /\ \E k \in ActKeys : k # last.key /\ kv[k] = None

\* ------------------------------------------------------- set, twice over
\* the store after set(key, value), and after set(key, value) once more
SetOnce(key, value) == set(Store, key, value).s
SetTwice(key, value) == set(SetOnce(key, value), key, value).s

\* C23: set is idempotent on the live state: on every store, for every key
\* and value, get returns for every key after set(k, v); set(k, v) what it
\* returns after set(k, v), whether neither, the first or the second of the
\* two sets compacts.
C23_SetIdempotent ==
    phase = "open" =>
        \A key \in ActKeys, value \in Values :
            View(SetTwice(key, value)) = View(SetOnce(key, value))

\* set(k, v) has run without compacting, on a store where one more set(k, v)
\* compacts and get(k) still returns v after it
C23_Witness ==
    /\ phase = "open"
    /\ last.op = "set"
    /\ last.res.ok
    /\ last.before_compact = None
    /\ SetOnce(last.key, last.value).compactions > compactions
    /\ get(SetOnce(last.key, last.value), last.key).res = Ok(Some(last.value))

\* ------------------------------------------------- what one call appends
\* the length of the store's current log
LogLen == dir[file_path].size

\* the step appends the record rec at offset LogLen of the store's log and
\* leaves all the records of the log as they are
AppendsOne(rec) ==
    /\ file_path' = file_path
    /\ LogLen \notin DOMAIN LogRecs
    /\ DOMAIN dir'[file_path].recs = DOMAIN LogRecs \cup {LogLen}
    /\ \A o \in DOMAIN LogRecs : dir'[file_path].recs[o] = LogRecs[o]
    /\ dir'[file_path].recs[LogLen] = rec
    /\ DOMAIN dir'[file_path].part = {}
    /\ dir'[file_path].size = LogLen + RecLen(rec)
    /\ DOMAIN dir' = DOMAIN dir

\* C24: a successful set(k, v) that runs no compaction appends exactly one
\* record, Record { db_key: p, key: k, value: Some(v) } with p the length of
\* the log before the call, sets index[k] = p and changes no other entry, and
\* adds 1 to the stale counter when k was in the index before, 0 otherwise.
C24_SetAppendsOneRecord ==
    [][(/\ phase = "open"
        /\ last'.op = "set"
        /\ last'.res.ok
        /\ compactions' = compactions) =>
           /\ AppendsOne([db_key |-> LogLen, key |-> last'.key,
                          value |-> Some(last'.value)])
           /\ index' = MapInsert(index, last'.key, LogLen)
           /\ stale_count' = stale_count + (IF last'.key \in DOMAIN index THEN 1 ELSE 0)]_vars

\* a set that displaced the offset of an older record of its key: both
\* records are in the log, which a compaction wrote
C24_Witness ==
    /\ phase = "open"
    /\ last.op = "set"
    /\ last.res.ok
    /\ last.before_compact = None
    /\ compactions >= 1
    /\ stale_count >= 1
    /\ index[last.key] + RecLen(LogRecs[index[last.key]]) = LogLen
    /\ \E o \in DOMAIN LogRecs : o < index[last.key] /\ LogRecs[o].key = last.key
    /\ reader.pos # index[last.key]

\* C25: a successful remove(k) of a key in the index that runs no compaction
\* appends exactly one record, the tombstone Record { db_key: p, key: k,
\* value: None } with p the length of the log before the call, deletes k from
\* the index and changes no other entry, and adds 1 to the stale counter.
C25_RemoveAppendsOneTombstone ==
    [][(/\ phase = "open"
        /\ last'.op = "remove"
        /\ last'.res.ok
        /\ compactions' = compactions) =>
           /\ last'.key \in DOMAIN index
           /\ AppendsOne([db_key |-> LogLen, key |-> last'.key, value |-> None])
           /\ index' = MapRemove(index, last'.key)
           /\ stale_count' = stale_count + 1]_vars

\* a remove that ran no compaction: its tombstone ends the log, the record it
\* makes stale is still in the log
C25_Witness ==
    /\ phase = "open"
    /\ last.op = "remove"
    /\ last.res.ok
    /\ last.before_compact = None
    /\ last.key \notin DOMAIN index
    /\ stale_count >= 1
    /\ \E o \in DOMAIN LogRecs :
           /\ LogRecs[o] = [db_key |-> o, key |-> last.key, value |-> None]
           /\ o + RecLen(LogRecs[o]) = LogLen
    /\ \E o \in DOMAIN LogRecs : LogRecs[o].key = last.key /\ LogRecs[o].value # None

\* --------------------------------------------- after an append that failed
\* C26: when the append of the record fails in set or remove, the call
\* returns IoError, index and stale counter are the ones from before the
\* call, no compaction ran, and from then on, until the next set or remove,
\* get returns for every key what it returned before the call.
C26_FailedAppendLeavesIndex ==
    fault.at = "append" =>
        /\ last.op \in {"set", "remove"} => last.res = IoError
        /\ index = fault.before[1].index
        /\ stale_count = fault.before[1].stale_count
        /\ file_path = fault.before[1].file_path
        /\ DOMAIN dir = fault.before[1].files
        /\ View(Store) = fault.before[1].view
        /\ last.op = "get" => last.res = fault.before[1].view[last.key]

\* get returned a value after a set or remove whose flush failed when part of
\* the record was in the file: the rest of it waits in the writer's buffer
C26_Witness ==
    /\ fault.at = "append"
    /\ fault.call = "flush"
    /\ last.op = "get"
    /\ last.res.ok /\ last.res.val # None
    /\ writer.buf # <<>>
    /\ DOMAIN dir[file_path].part # {}

\* ------------------------------------------------------ the log only grows
\* the bytes of file f are the first bytes of file g: every record of f is in
\* g at its offset, and so are the first bytes f has of a record
IsPrefix(f, g) ==
    /\ f.size <= g.size
    /\ \A o \in DOMAIN f.recs : o \in DOMAIN g.recs /\ g.recs[o] = f.recs[o]
    /\ \A o \in DOMAIN f.part :
           \/ o \in DOMAIN g.recs /\ g.recs[o] = f.part[o].rec
           \/ /\ o \in DOMAIN g.part
              /\ g.part[o].rec = f.part[o].rec
              /\ g.part[o].have >= f.part[o].have

\* C27: the log is append-only between compactions: in every step that is
\* neither a successful compaction nor KvStore::new, every file of the store
\* directory, the store's log among them, is still there after the step and
\* its content before the step is a prefix of its content after it.
C27_LogIsAppendOnly ==
    [][(compactions' = compactions /\ last'.op # "new") =>
           \A p \in DOMAIN dir : p \in DOMAIN dir' /\ IsPrefix(dir[p], dir'[p])]_vars

\* a set appended to a log that was opened again after a drop: the records
\* from before the drop are in the log, ahead of the new one
C27_Witness ==
    /\ phase = "open"
    /\ last.op = "set"
    /\ last.res.ok
    /\ last.before_compact = None
    /\ dropped.view # None
    /\ index[last.key] + RecLen(LogRecs[index[last.key]]) = LogLen
    /\ \E o \in DOMAIN LogRecs : o < index[last.key]
    /\ \E k \in DOMAIN index : index[k] < index[last.key]

\* ------------------------------------------------- what a compaction copies
\* the offsets of the records of log file old that index gives for their keys
LiveOffsets(old, idx) ==
    {o \in DOMAIN old.recs :
        old.recs[o].key \in DOMAIN idx /\ idx[old.recs[o].key] = o}

\* the step compacted the store mid (the store after the append of the call):
\* the new log holds the live records of the old one and nothing else, in
\* their order, one after the other from offset 0 on, each with its new
\* offset as db_key, and the new index gives each key that offset
CopiedLive(mid) ==
    LET rewritten(old, live, compact_file) ==
            /\ Cardinality(DOMAIN compact_file.recs) = Cardinality(live)
            /\ DOMAIN index' = {old.recs[o].key : o \in live}
            /\ \A o \in live :
                   /\ index'[old.recs[o].key] \in DOMAIN compact_file.recs
                   /\ compact_file.recs[index'[old.recs[o].key]] =
                          [db_key |-> index'[old.recs[o].key],
                           key    |-> old.recs[o].key,
                           value  |-> old.recs[o].value]
            /\ \A o1, o2 \in live :
                   o1 < o2 => index'[old.recs[o1].key] < index'[old.recs[o2].key]
            /\ \A n \in DOMAIN compact_file.recs :
                   /\ n = 0 \/ \E m \in DOMAIN compact_file.recs : m + RecLen(compact_file.recs[m]) = n
                   /\ n + RecLen(compact_file.recs[n]) <= compact_file.size
            /\ \E n \in DOMAIN compact_file.recs : n + RecLen(compact_file.recs[n]) = compact_file.size
            /\ compact_file.part = NoRecs
        compacted(old, idx) == rewritten(old, LiveOffsets(old, idx), dir'[file_path'])
    IN compacted(mid.dir[mid.file_path], mid.index)

\* C28: a compaction writes a record read from offset o of the old log to the
\* compact file if and only if the index gives o for the record's key; the
\* records copied keep their order, lie one after the other from offset 0
\* on, and the new index maps the key of each to the offset it was written at.
C28_CompactionCopiesLiveRecordsInOrder ==
    [][(phase = "open" /\ last'.res.ok /\ last'.before_compact # None) =>
           CopiedLive(IF last'.op = "set"
                      THEN set_record(Store, last'.key, last'.value).s
                      ELSE remove_record(Store, last'.key).s)]_vars

\* a remove ran a compaction of a log that held overwritten records and a
\* tombstone; the records of the new log are the live ones, and the record
\* of key 2, written after that of the last key, still comes after it
C28_Witness ==
    /\ phase = "open"
    /\ last.op = "remove"
    /\ last.res.ok
    /\ last.before_compact # None
    /\ compactions >= 2
    /\ {2, min_records_before_compaction} \subseteq DOMAIN index
    /\ LiveOffsets(dir[file_path], index) = DOMAIN LogRecs
    /\ index[min_records_before_compaction] < index[2]

\* ------------------------------------------------ the files of the directory
\* the files of the directory named kvsdb-<uuid> with the extension ext
DbFiles(ext) == {p \in DOMAIN dir : p.stem = "kvsdb-" /\ p.ext = ext}

\* between calls the directory holds one log file, the one of the store when
\* there is a store, and no compact file
OneLog ==
    /\ Cardinality(DbFiles("log")) = 1
    /\ DbFiles("compact") = {}
    /\ phase = "open" => (file_path.ext = "log" /\ DbFiles("log") = {file_path})

\* C29: in runs without I/O failure or crash the store directory holds,
\* between calls, exactly one kvsdb log file, the store's file_path, with the
\* extension log, and no compact file; a successful compaction leaves a log
\* under a new name and the log it read is no longer in the directory.
C29_OneLogFileBetweenCalls ==
    [][/\ OneLog
       /\ OneLog'
       /\ compactions' > compactions =>
              /\ file_path' # file_path
              /\ file_path'.ext = "log"
              /\ file_path' \notin DOMAIN dir
              /\ file_path \notin DOMAIN dir']_vars

\* a set appended to the log a compaction of this run wrote
C29_Witness ==
    /\ phase = "open"
    /\ last.op = "set"
    /\ last.before_compact = None
    /\ steps = MaxSteps
    /\ file_path.uuid > 2
    /\ DOMAIN dir = {file_path}
    /\ dir[file_path].size > 0

\* ------------------------------------------- get of an offset with no record
\* the read of get either goes through or fails, with either error of the
\* decoder
DecodePlans == {Calm} \cup {Plan("from_reader", 0, 0, decode) : decode \in DecodeErrors}

\* what the reader's file holds at the offset the index gives for key
Indexed(key) == ReadAt(dir[reader.path], index[key])

\* from_reader decodes a record at the offset of key while the operating
\* system follows plan
Decodes(plan, key) == plan.call # "from_reader" /\ Indexed(key).kind = "rec"

\* C30: get(k) of a key in the index returns IoError, never Ok(None), when
\* the decoding at the offset the index gives yields no record: the log ends
\* there, the octets there are no record, or the read fails; and when get
\* returns Ok, a record was decoded at that offset and get returns its value.
C30_GetWithoutRecordIsIoError ==
    phase = "open" =>
        /\ \A k \in DOMAIN index, plan \in DecodePlans :
               IF Decodes(plan, k)
               THEN GetUnder(plan, k) = Ok(Indexed(k).rec.value)
               ELSE GetUnder(plan, k) = IoError
        /\ (last.op = "get" /\ last.key \in DOMAIN index) =>
               IF Indexed(last.key).kind = "rec"
               THEN last.res = Ok(Indexed(last.key).rec.value)
               ELSE last.res = IoError

\* get returned IoError for a key whose offset in the index lies inside a
\* record: the octets there decode to nothing
C30_Witness ==
    /\ phase = "open"
    /\ last.op = "get"
    /\ last.key \in DOMAIN index
    /\ last.res = IoError
    /\ Indexed(last.key).kind = "bad"
    /\ index[last.key] < dir[reader.path].size

\* ------------------------------------- a mutation whose compaction failed
\* SpecOneFault: one set or remove while one I/O call fails, on a store that
\* saw no failure before and that an overwrite or a removal makes compact;
\* then gets.
OneFaultShapes ==
    { <<min_records_before_compaction, 2 * StaleAtMin - 1>>,
      <<min_records_before_compaction + 1, 2 * StaleAtMin>> }

InitOneFault ==
    \E shape \in OneFaultShapes :
        /\ InitStore(Preloaded(shape))
        /\ phase = "open"
        /\ kv = [k \in AllKeys |-> IF k <= shape[2] THEN Some(2)
                                   ELSE IF k <= shape[1] THEN Some(1) ELSE None]
        /\ last = NoCall("init")
        /\ dropped = [index |-> NoIndex, stale_count |-> 0, view |-> None]
        /\ fault = NoFault
        /\ peer = NoPeer
        /\ steps = 0

NextOneFault ==
    \/ \E plan \in FaultPlans, key \in ActKeys, value \in Values :
           steps = 0 /\ FaultySet(plan, key, value)
    \/ \E plan \in FaultPlans, key \in ActKeys :
           steps = 0 /\ FaultyRemove(plan, key)
    \/ \E key \in ActKeys : Get(key)

SpecOneFault == InitOneFault /\ [][NextOneFault]_vars

\* C31: when the append of set(k, v) went through and the compaction it
\* triggered failed, set returns an error although the mutation took effect:
\* the index maps k to a record of k with value v in the store's log, and
\* get(k) returns Some(v); when the compaction a remove(k) triggered failed,
\* remove returns an error although k is no longer in the index and get(k)
\* returns None.
C31_FailedCompactionKeepsMutation ==
    (/\ last.op \in {"set", "remove"}
     /\ fault.at = "compact"
     /\ ~last.res.ok) =>
        /\ last.res = IoError
        /\ last.op = "set" =>
               /\ last.key \in DOMAIN index
               /\ index[last.key] \in DOMAIN LogRecs
               /\ LogRecs[index[last.key]].key = last.key
               /\ LogRecs[index[last.key]].value = Some(last.value)
               /\ get(Store, last.key).res = Ok(Some(last.value))
        /\ last.op = "remove" =>
               /\ last.key \notin DOMAIN index
               /\ get(Store, last.key).res = Ok(None)

\* set returned IoError from a compaction that failed after the copy, in the
\* rename: get returns the value of the set
C31_Witness ==
    /\ last.op = "set"
    /\ fault.at = "compact"
    /\ fault.call = "rename"
    /\ last.res = IoError
    /\ last.value = 1
    /\ get(Store, last.key).res = Ok(Some(1))
    /\ kv[last.key] = Some(2)


\* ------------------------------------------- below the threshold after a call
\* the store is below the compaction threshold: fewer keys than the minimum,
\* or stale_count / index.len() below the fraction
BelowThreshold ==
    \/ Cardinality(DOMAIN index) < thresholds.min_records_before_compaction
    \/ stale_count * thresholds.stale_fraction_for_compaction.den
           < thresholds.stale_fraction_for_compaction.num * Cardinality(DOMAIN index)

\* C32: after every set or remove that returned Ok (the fraction being
\* above 0) the store is below the compaction threshold.
C32_BelowThresholdAfterSuccess ==
    (/\ phase = "open"
     /\ last.op \in {"set", "remove"}
     /\ last.res.ok
     /\ thresholds.stale_fraction_for_compaction.num > 0) => BelowThreshold

\* a set that ran no compaction left a store of more than the minimum of
\* keys on which one more stale record reaches the fraction
C32_Witness ==
    /\ phase = "open"
    /\ last.op = "set"
    /\ last.res.ok
    /\ Cardinality(DOMAIN index) >= thresholds.min_records_before_compaction
    /\ last.before_compact = None
    /\ (stale_count + 1) * thresholds.stale_fraction_for_compaction.den
           >= thresholds.stale_fraction_for_compaction.num * Cardinality(DOMAIN index)

\* ------------------------------------------------- the keys a call leaves
\* C33: a successful set(k, _) or remove(k) changes what get returns for no
\* key other than k, whether or not it runs a compaction.
C33_OtherKeysUnaffected ==
    [][(phase = "open" /\ last'.op \in {"set", "remove"} /\ last'.res.ok) =>
           \A k \in AllKeys \ {last'.key} : get(Store, k)'.res = get(Store, k).res]_vars

\* a remove of one key ran a compaction on a store where get returns a value
\* for the other key of the calls, which an earlier set of the run wrote
C33_Witness ==
    /\ phase = "open"
    /\ last.op = "remove"
    /\ last.res.ok
    /\ last.before_compact # None
    /\ steps = MaxSteps
    /\ \E k \in ActKeys \ {last.key} : get(Store, k).res = Ok(Some(1)) /\ kv[k] = Some(1)
    /\ get(Store, last.key).res = Ok(None)

\* ----------------------------------------------------- get only reads
\* get left in store r what the current store holds but for the reader
ReadOnly(r) ==
    /\ r.index = index
    /\ r.stale_count = stale_count
    /\ r.file_path = file_path
    /\ r.dir = dir
    /\ r.writer = writer
    /\ r.reader.path = reader.path

\* C34: get only reads: whatever it returns, a value, None or an error, and
\* whichever I/O call of it fails, it leaves the index, the stale counter,
\* the file path, the files with their contents and the writer as they are;
\* only the position of the reader moves.
C34_GetIsReadOnly ==
    [][/\ phase = "open" =>
              \A plan \in FaultPlans \cup {Calm}, k \in GetKeys :
                  ReadOnly(get(Under(plan), k).s)
       /\ (phase = "open" /\ last'.op = "get") =>
              /\ UNCHANGED <<index, stale_count, file_path, dir, writer>>
              /\ reader'.path = reader.path]_vars

\* get returned an error and left the reader at the offset of the key, away
\* from the position of the writer
C34_Witness ==
    /\ phase = "open"
    /\ last.op = "get"
    /\ ~last.res.ok
    /\ last.key \in DOMAIN index
    /\ reader.pos = index[last.key]
    /\ writer.pos > reader.pos

\* ------------------------------------------------------ what open leaves
\* the step changed no file that was in the directory, made no file but an
\* empty log, and ran no compaction
LeavesFiles ==
    /\ \A p \in DOMAIN dir : p \in DOMAIN dir' /\ dir'[p] = dir[p]
    /\ \A p \in DOMAIN dir' \ DOMAIN dir : p.ext = "log" /\ dir'[p].size = 0
    /\ compactions' = compactions

\* the store was opened, by replay of a log that meets the compaction
\* thresholds, and has not been used since
OpenedAtThreshold ==
    /\ phase = "open"
    /\ last.op = "open"
    /\ last.res.ok
    /\ ~BelowThreshold

\* the step is a set or remove that returned Ok
SuccessfulMutation == last'.op \in {"set", "remove"} /\ last'.res.ok

\* index.len() and the stale counter as the append of the step's call leaves
\* them meet the compaction thresholds
MeetsThresholdAfterAppend ==
    LET len == IF last'.op = "set" THEN Cardinality(DOMAIN index \cup {last'.key})
               ELSE Cardinality(DOMAIN index \ {last'.key})
        stale == IF last'.op = "set" /\ last'.key \notin DOMAIN index
                 THEN stale_count ELSE stale_count + 1
    IN /\ len >= thresholds.min_records_before_compaction
       /\ stale * thresholds.stale_fraction_for_compaction.den
              >= thresholds.stale_fraction_for_compaction.num * len

\* C35, as claimed: open changes no file of the directory and runs no
\* compaction, even when the replayed index and stale counter meet the
\* thresholds; the compaction is run by the next successful set or remove.
C35_OpenDefersCompactionToNextMutation ==
    [][/\ last'.op = "open" => LeavesFiles
       /\ (OpenedAtThreshold /\ SuccessfulMutation) => compactions' > compactions]_vars

\* C35, amended: open changes no file of the directory and runs no
\* compaction, even when the replayed index and stale counter meet the
\* thresholds; the next successful set or remove runs the compaction exactly
\* when index.len() and the stale counter still meet the thresholds after
\* its own change to them (a remove that takes index.len() below the minimum
\* and a set of a new key that takes the quotient below the fraction run
\* none).
C35_OpenLeavesFilesAndRunsNoCompaction ==
    [][/\ last'.op = "open" => LeavesFiles
       /\ (OpenedAtThreshold /\ SuccessfulMutation) =>
              (compactions' > compactions <=> MeetsThresholdAfterAppend)]_vars

\* open has replayed a log of the minimum of keys whose stale records reach
\* the fraction: the process had died in the compaction
C35_Witness ==
    /\ OpenedAtThreshold
    /\ Cardinality(DOMAIN index) = thresholds.min_records_before_compaction
    /\ fault.at = "compact"
    /\ DOMAIN dir[file_path].recs # {}

\* --------------------------------------------- appends behind a torn record
\* the file holds the first bytes of a record a crash cut short, and bytes
\* written behind them since
TornInside(file) ==
    \E o \in DOMAIN file.part : o + file.part[o].have < file.size

\* the last call is an open of the log of a store that had recovered from a
\* torn tail, had appended to the log since and was idle when its process
\* ended
OpenedAfterTornRecovery ==
    /\ last.op = "open"
    /\ fault.call = "crash"
    /\ fault.at = "idle"
    /\ TornInside(dir[fault.before[1].file_path])

\* C36: mutations made after the recovery from a torn log tail stay durable:
\* when a crash left a partial record at the end of the log, the store was
\* opened again and its sets and removes returned, a later open, after that
\* store is gone, returns a store in which get returns for every key what it
\* returned on the store that is gone.
C36_MutationsAfterTornTailAreDurable ==
    OpenedAfterTornRecovery =>
        /\ last.res.ok
        /\ View(Store) = fault.before[1].view

\* ------------------------------------- two KvStores of one directory
\* the store value of the KvStore with the fields h, on the directory as it is
With(h) ==
    [Store EXCEPT !.index = h.index, !.stale_count = h.stale_count,
                  !.file_path = h.file_path, !.reader = h.reader,
                  !.writer = h.writer]

\* the next state holds the store value s of the second KvStore
PeerBecomes(s) ==
    /\ peer' = [index |-> s.index, stale_count |-> s.stale_count,
                file_path |-> s.file_path, reader |-> s.reader,
                writer |-> s.writer]
    /\ dir' = s.dir
    /\ clock' = s.clock
    /\ next_uuid' = s.next_uuid
    /\ compactions' = s.compactions
    /\ UNCHANGED <<index, stale_count, file_path, reader, writer, thresholds>>

\* the shapes of the log the two stores start from: no compaction is in reach
TwoShapes == {<<0, 0>>, <<1, 0>>, <<2, 1>>}

InitTwo ==
    \E shape \in TwoShapes :
        /\ InitStore(Preloaded(shape))
        /\ phase = "open"
        /\ kv = [k \in AllKeys |-> IF k <= shape[2] THEN Some(2)
                                   ELSE IF k <= shape[1] THEN Some(1) ELSE None]
        /\ last = NoCall("init")
        /\ dropped = [index |-> NoIndex, stale_count |-> 0, view |-> None,
                      peer |-> NoPeer]
        /\ fault = NoFault
        /\ peer = NoPeer
        /\ steps = 0

\* KvStore::open(dir) while the first KvStore of dir is open
PeerOpen ==
    /\ phase = "open"
    /\ peer = NoPeer
    /\ \E db_path \in use_existing_or_create_new_db_log_path(Store) :
           LET call(r) ==
                   /\ PeerBecomes(r.s)
                   /\ last' = [NoCall("peer open") EXCEPT !.res = r.res]
           IN call(open(With(NoPeer), db_path))
    /\ UNCHANGED <<phase, kv, dropped, fault, steps>>

\* set(key, value) on the second KvStore
PeerSet(key, value) ==
    /\ phase = "open"
    /\ peer # NoPeer
    /\ steps < MaxSteps
    /\ LET call(r) ==
               /\ PeerBecomes(r.s)
               /\ kv' = IF r.res.ok THEN [kv EXCEPT ![key] = Some(value)] ELSE kv
               /\ last' = [op |-> "peer set", key |-> key, value |-> value,
                           res |-> r.res, before_compact |-> None]
       IN call(set(With(peer), key, value))
    /\ steps' = steps + 1
    /\ UNCHANGED <<phase, dropped, fault>>

\* both KvStores go out of scope
DropBoth ==
    /\ phase = "open"
    /\ LET first(s) == Becomes(drop([Store EXCEPT !.dir = s.dir, !.clock = s.clock]))
       IN first(drop(With(peer)))
    /\ phase' = "closed"
    /\ peer' = NoPeer
    /\ dropped' = [index |-> index, stale_count |-> stale_count,
                   view |-> View(Store), peer |-> peer]
    /\ last' = NoCall("drop")
    /\ UNCHANGED <<kv, fault, steps>>

NextTwo ==
    \/ \E key \in ActKeys, value \in Values : Set(key, value)
    \/ \E key \in ActKeys, value \in Values : PeerSet(key, value)
    \/ PeerOpen
    \/ DropBoth
    \/ Open

SpecTwo == InitTwo /\ [][NextTwo]_vars

\* C37: open takes no lock and every KvStore's writer keeps a file position
\* of its own.  An open of the directory of an open KvStore succeeds, on the
\* same log, its writer at the end of that log, and changes nothing of the
\* first KvStore or of the files.  A successful set of either KvStore writes
\* its record at the offset its own writer stood at, whatever the other
\* KvStore wrote in between, and moves its own writer only.
C37_EveryWriterKeepsItsOwnPosition ==
    [][/\ last'.op = "peer open" =>
              /\ last'.res.ok
              /\ peer'.file_path = file_path
              /\ peer'.writer = [path |-> file_path, pos |-> dir[file_path].size,
                                 buf |-> <<>>]
              /\ UNCHANGED <<index, stale_count, file_path, reader, writer, dir>>
       /\ (last'.op = "set" /\ last'.res.ok /\ phase = "open") =>
              /\ file_path \in DOMAIN dir'
              /\ writer.pos \in DOMAIN dir'[file_path].recs
              /\ dir'[file_path].recs[writer.pos] =
                     [db_key |-> writer.pos, key |-> last'.key,
                      value |-> Some(last'.value)]
              /\ index' = MapInsert(index, last'.key, writer.pos)
              /\ writer'.pos = writer.pos + RecLen(dir'[file_path].recs[writer.pos])
              /\ peer' = peer
       /\ (last'.op = "peer set" /\ last'.res.ok) =>
              /\ file_path \in DOMAIN dir'
              /\ peer.writer.pos \in DOMAIN dir'[file_path].recs
              /\ dir'[file_path].recs[peer.writer.pos] =
                     [db_key |-> peer.writer.pos, key |-> last'.key,
                      value |-> Some(last'.value)]
              /\ peer'.index = MapInsert(peer.index, last'.key, peer.writer.pos)
              /\ peer'.writer.pos =
                     peer.writer.pos + RecLen(dir'[file_path].recs[peer.writer.pos])
              /\ UNCHANGED <<index, writer>>]_vars

\* two KvStores of one directory each set a key with success, at the same
\* offset of the log; after both went out of scope, open succeeded and the
\* value the first one set is not what get returns
C37_Witness ==
    /\ last.op = "open"
    /\ last.res.ok
    /\ phase = "open"
    /\ \E k \in DOMAIN dropped.index, k2 \in DOMAIN dropped.peer.index :
           /\ k # k2
           /\ dropped.index[k] = dropped.peer.index[k2]
           /\ kv[k] # None
           /\ kv[k2] # None
           /\ get(Store, k).res # Ok(kv[k])

====
